---- MODULE Spec2Model ----
(***************************************************************************)
(* The adaptive plan execution engine of SecAgent (src/agent.py):         *)
(* _execute_plan_with_replanning with the single-step executor, the error *)
(* classifier, the predefined fallback strategies, the LLM replanner and  *)
(* the partial-result builder.                                            *)
(*                                                                         *)
(* Encoding of Python values.  A Python str that the code searches,       *)
(* lower-cases, strips or interpolates is a sequence of one-character      *)
(* strings; None and a missing key of a string field are the empty         *)
(* sequence (the modelled inputs hold no empty strings, and the code only  *)
(* tests such fields for truth or equality); a missing integer is 0.       *)
(* A parameter map is a record with one field per key the code reads and   *)
(* a flag "present" that is FALSE for a missing / None map.                *)
(***************************************************************************)
EXTENDS Integers, Sequences, FiniteSets, TLC

(***************************************************************************)
(* Text                                                                    *)
(***************************************************************************)
\* str.lower() on one character (ASCII letters used by the modelled texts)
LowerChar(c) ==
    CASE c = "A" -> "a" [] c = "B" -> "b" [] c = "C" -> "c" [] c = "D" -> "d"
      [] c = "E" -> "e" [] c = "F" -> "f" [] c = "G" -> "g" [] c = "H" -> "h"
      [] c = "I" -> "i" [] c = "J" -> "j" [] c = "K" -> "k" [] c = "L" -> "l"
      [] c = "M" -> "m" [] c = "N" -> "n" [] c = "O" -> "o" [] c = "P" -> "p"
      [] c = "Q" -> "q" [] c = "R" -> "r" [] c = "S" -> "s" [] c = "T" -> "t"
      [] c = "U" -> "u" [] c = "V" -> "v" [] c = "W" -> "w" [] c = "X" -> "x"
      [] c = "Y" -> "y" [] c = "Z" -> "z" [] OTHER -> c

\* str.lower()
Lower(s) == [i \in 1..Len(s) |-> LowerChar(s[i])]

\* the Python test  p in s  on two strings
Contains(s, p) ==
    \E i \in 0..(Len(s) - Len(p)) : SubSeq(s, i + 1, i + Len(p)) = p

\* str.endswith
EndsWith(s, suffix) ==
    /\ Len(suffix) <= Len(s)
    /\ SubSeq(s, Len(s) - Len(suffix) + 1, Len(s)) = suffix

\* str.strip() (the modelled texts hold no whitespace but the blank)
RECURSIVE Strip(_)
Strip(s) ==
    IF s = <<>> THEN s
    ELSE IF Head(s) = " " THEN Strip(Tail(s))
    ELSE IF s[Len(s)] = " " THEN Strip(SubSeq(s, 1, Len(s) - 1))
    ELSE s

\* str() of a tool name, as the f-strings of the executor print it
ToolText(t) ==
    CASE t = "get_recent_filings" -> <<"g","e","t","_","r","e","c","e","n","t","_","f","i","l","i","n","g","s">>
      [] t = "get_company_info"   -> <<"g","e","t","_","c","o","m","p","a","n","y","_","i","n","f","o">>
      [] t = "search_companies"   -> <<"s","e","a","r","c","h","_","c","o","m","p","a","n","i","e","s">>
      [] t = "get_company_facts"  -> <<"g","e","t","_","c","o","m","p","a","n","y","_","f","a","c","t","s">>
      [] t = "get_cik_by_ticker"  -> <<"g","e","t","_","c","i","k","_","b","y","_","t","i","c","k","e","r">>
      [] t = "get_filing_content" -> <<"g","e","t","_","f","i","l","i","n","g","_","c","o","n","t","e","n","t">>
      [] t = "analyze_8k"         -> <<"a","n","a","l","y","z","e","_","8","k">>
      [] t = "get_filing_sections" -> <<"g","e","t","_","f","i","l","i","n","g","_","s","e","c","t","i","o","n","s">>
      [] t = "lookup_widget"      -> <<"l","o","o","k","u","p","_","w","i","d","g","e","t">>
      [] OTHER                    -> <<"N","o","n","e">>

\* str() of an action_type, as the f-string of the malformed-plan error prints it
ActionTypeText(a) ==
    CASE a = "reasoning" -> <<"r","e","a","s","o","n","i","n","g">>
      [] a = "tool_call" -> <<"t","o","o","l","_","c","a","l","l">>
      [] a = "synthesis" -> <<"s","y","n","t","h","e","s","i","s">>
      [] OTHER           -> <<"a","n","a","l","y","s","i","s">>

(***************************************************************************)
(* Configuration                                                           *)
(***************************************************************************)
max_replanning_attempts == 2
max_total_replannings == 5

\* the method names of CompanyTools, the class whose instance is registered
\* first (company.py lines 21, 41, 68, 85)
CompanyToolNames ==
    {"get_cik_by_ticker", "get_company_info", "search_companies",
     "get_company_facts"}

\* the method names of FilingsTools (filings.py lines 27, 84, 139, 202)
FilingsToolNames ==
    {"get_recent_filings", "get_filing_content", "analyze_8k",
     "get_filing_sections"}

\* the names SecAgent.__init__ registers from the tool classes; FinancialTools
\* (sec_edgar_mcp/tools/financial.py) is not part of the sources and adds
\* no name here
tool_registry == CompanyToolNames \cup FilingsToolNames

NoTool == "None"
NoYear == 0
NoText == <<>>

(***************************************************************************)
(* ErrorClassifier                                                         *)
(***************************************************************************)
unrecoverable_patterns ==
    << <<"i","n","v","a","l","i","d"," ","c","i","k"," ","f","o","r","m","a","t">>, <<"a","u","t","h","e","n","t","i","c","a","t","i","o","n"," ","f","a","i","l","e","d">>, <<"n","e","t","w","o","r","k"," ","u","n","r","e","a","c","h","a","b","l","e">>,
       <<"i","n","v","a","l","i","d"," ","t","o","o","l">>, <<"m","e","t","h","o","d"," ","n","o","t"," ","f","o","u","n","d">> >>

\* variant: the list without its first phrase
rate_limit_patterns_without_phrase ==
    << <<"4","2","9">>, <<"t","o","o"," ","m","a","n","y"," ","r","e","q","u","e","s","t","s">>, <<"q","u","o","t","a"," ","e","x","c","e","e","d","e","d">> >>

rate_limit_patterns ==
    << <<"r","a","t","e"," ","l","i","m","i","t">>, <<"4","2","9">>, <<"t","o","o"," ","m","a","n","y"," ","r","e","q","u","e","s","t","s">>, <<"q","u","o","t","a"," ","e","x","c","e","e","d","e","d">> >>

MatchesAny(text, patterns) ==
    \E k \in 1..Len(patterns) : Contains(text, patterns[k])

\* variant: the rate-limit list is checked first
_classify_error_rate_limit_first(error_message) ==
    LET error_lower == Lower(error_message) IN
    IF MatchesAny(error_lower, rate_limit_patterns) THEN "RATE_LIMIT"
    ELSE IF MatchesAny(error_lower, unrecoverable_patterns) THEN "UNRECOVERABLE"
    ELSE "RECOVERABLE"

\* variant: the message is matched without lower-casing it
_classify_error_case_sensitive(error_message) ==
    IF MatchesAny(error_message, unrecoverable_patterns) THEN "UNRECOVERABLE"
    ELSE IF MatchesAny(error_message, rate_limit_patterns) THEN "RATE_LIMIT"
    ELSE "RECOVERABLE"

_classify_error(error_message) ==
    LET error_lower == Lower(error_message) IN
    IF MatchesAny(error_lower, unrecoverable_patterns) THEN "UNRECOVERABLE"
    ELSE IF MatchesAny(error_lower, rate_limit_patterns) THEN "RATE_LIMIT"
    ELSE "RECOVERABLE"

(***************************************************************************)
(* Steps and parameter maps                                                *)
(***************************************************************************)
NoForm == "None"

\* tool_parameters missing from the step: step.get('tool_parameters') is
\* None and step.get('tool_parameters', {}) is the empty map
NoParams ==
    [present |-> FALSE, identifier |-> NoText, cik_or_ticker |-> NoText,
     form_type |-> NoForm, year |-> NoYear, query |-> NoText, limit |-> 0]

\* the empty map {}
EmptyParams == [NoParams EXCEPT !.present = TRUE]

\* step.get('tool_parameters', {})
ParamsOrEmpty(step) ==
    IF step.tool_parameters.present THEN step.tool_parameters ELSE EmptyParams

NullStep ==
    [step |-> 0, action_type |-> "None", description |-> NoText,
     tool |-> NoTool, tool_parameters |-> NoParams]

\* outcomes of a function returning Optional[Dict] that may also raise
SomeStep(s) == [kind |-> "step", step |-> s]
NoStep == [kind |-> "none", step |-> NullStep]
Raised == [kind |-> "raise", step |-> NullStep]

(***************************************************************************)
(* The dicts of the steps and of their parameter maps                      *)
(***************************************************************************)
\* A step of a plan is a dict, and so is the parameter map it holds under
\* 'tool_parameters'. The dicts that are alive are kept by kind, each known
\* by its position; the dict of a step holds the position of its parameter
\* map, or None when it has no key 'tool_parameters'.
None == 0

NoObjects == [steps |-> << >>, maps |-> << >>]

\* the dict of a step whose parameter map is the object at position m
StepObject(s, m) ==
    [step |-> s.step, action_type |-> s.action_type,
     description |-> s.description, tool |-> s.tool, tool_parameters |-> m]

\* what step.get(...) reads from the dict at position a: its entries, with
\* the entries of the parameter map it holds
Load(h, a) ==
    IF a = None THEN NullStep
    ELSE [h.steps[a] EXCEPT
              !.tool_parameters = IF @ = None THEN NoParams ELSE h.maps[@]]

\* the steps of a list of dicts
Loaded(h, refs) == [k \in 1..Len(refs) |-> Load(h, refs[k])]

\* a dict written as a literal (lines 669-680, 722-729) or made by
\* json.loads (lines 190, 800): a new dict of the step, holding a new dict
\* of its parameter map
NewDict(h, s) ==
    IF s.tool_parameters.present
    THEN [steps |-> Append(h.steps, StepObject(s, Len(h.maps) + 1)),
          maps |-> Append(h.maps, s.tool_parameters)]
    ELSE [steps |-> Append(h.steps, StepObject(s, None)), maps |-> h.maps]

RECURSIVE Parsed(_, _)
\* the list of dicts of a plan, made step by step
Parsed(h, p) == IF p = << >> THEN h ELSE Parsed(NewDict(h, Head(p)), Tail(p))

\* the positions of the steps of plan p once it is made in h
Made(h, p) == [k \in 1..Len(p) |-> Len(h.steps) + k]

\* variant: the parameter map of the copy is the one of the failed step
CopyWith_shared_map(h, failed_step, params) ==
    LET new_step == Len(h.steps) + 1
        copied == [h EXCEPT !.steps = Append(@, h.steps[failed_step])]
        target == copied.steps[new_step].tool_parameters
    IN  IF target = None THEN copied
        ELSE [copied EXCEPT !.maps[target] = params]

\* lines 617-619, 640-642 and 693-695:
\*     new_step = failed_step.copy()
\*     new_step['tool_parameters'] = original_params.copy()
\*     new_step['tool_parameters'][key] = value
\* copy() makes a new dict with the entries of the old one, so the copy of
\* the step holds the parameter map of the failed step until the second line
\* gives it a dict of its own; the store of the third line goes to the dict
\* the new step holds; params is the content of that dict after the store
CopyWith(h, failed_step, params) ==
    LET new_step == Len(h.steps) + 1
        copied == [h EXCEPT !.steps = Append(@, h.steps[failed_step])]
        original_params == h.steps[failed_step].tool_parameters
        own_map ==
            [copied EXCEPT
                 !.maps = Append(@, IF original_params = None THEN EmptyParams
                                    ELSE h.maps[original_params]),
                 !.steps[new_step].tool_parameters = Len(h.maps) + 1]
        target == own_map.steps[new_step].tool_parameters
    IN  [own_map EXCEPT !.maps[target] = params]

\* the answer of a strategy is the failed step with another parameter map:
\* the three strategies that answer failed_step.copy(); the other two answer
\* a literal with a description of their own and with a tool that the
\* failed step does not have, or they would not answer
IsCopyOf(new_step, failed_step) ==
    [new_step EXCEPT !.tool_parameters = failed_step.tool_parameters] = failed_step

\* the dicts once _try_predefined_fallback has answered new_step to the
\* failed step at position failed_step
FallbackObjects(h, failed_step, new_step) ==
    IF IsCopyOf(new_step, Load(h, failed_step))
    THEN CopyWith(h, failed_step, new_step.tool_parameters)
    ELSE NewDict(h, new_step)

(***************************************************************************)
(* FallbackStrategyEngine                                                  *)
(***************************************************************************)
alternative_forms(form_type) ==
    CASE form_type = "10-K" -> "10-Q"
      [] form_type = "10-Q" -> "10-K"
      [] OTHER -> NoForm

year_offset == -1
earliest_year == 2010
search_limit == 5

remove_suffixes == << <<" ","I","n","c">>, <<" ","C","o","r","p">>, <<" ","L","L","C">>, <<" ","C","o","r","p","o","r","a","t","i","o","n">> >>

\* any(a.get('parameters', {}).get(key) == value for a in attempted_approaches)
\* every attempt record holds the key 'parameters', so the default {} never
\* applies and an attempt recorded with parameters None raises AttributeError
\* when the scan reaches it
\* variant: the attempt history is not looked at
AnyParameter_unchecked(attempted_approaches, key, value) == "false"

RECURSIVE AnyParameter(_, _, _)
AnyParameter(attempted_approaches, key, value) ==
    IF attempted_approaches = <<>> THEN "false"
    ELSE IF ~Head(attempted_approaches).parameters.present THEN "raise"
    ELSE IF Head(attempted_approaches).parameters[key] = value THEN "true"
    ELSE AnyParameter(Tail(attempted_approaches), key, value)

\* any(a.get('tool') == tool for a in attempted_approaches)
AnyTool(attempted_approaches, tool) ==
    \E k \in 1..Len(attempted_approaches) : attempted_approaches[k].tool = tool

\* variant: the year step goes back without a lower limit
AdjustYear_unbounded(failed_step, attempted_approaches) ==
    LET original_params == ParamsOrEmpty(failed_step)
        year == original_params.year
        new_year == year + year_offset
        already_tried == AnyParameter(attempted_approaches, "year", new_year)
    IN  IF year = NoYear THEN NoStep
        ELSE IF already_tried = "raise" THEN Raised
        ELSE IF already_tried = "false"
        THEN SomeStep([failed_step EXCEPT
                 !.tool_parameters = [original_params EXCEPT !.year = new_year]])
        ELSE NoStep

\* variant: the year step also goes back to the other form
AdjustYear_and_form(failed_step, attempted_approaches) ==
    LET original_params == ParamsOrEmpty(failed_step)
        year == original_params.year
        new_year == year + year_offset
        already_tried == AnyParameter(attempted_approaches, "year", new_year)
    IN  IF year = NoYear THEN NoStep
        ELSE IF already_tried = "raise" THEN Raised
        ELSE IF already_tried = "false" /\ new_year >= earliest_year
        THEN SomeStep([failed_step EXCEPT
                 !.tool_parameters =
                     [original_params EXCEPT
                          !.year = new_year,
                          !.form_type = alternative_forms(original_params.form_type)]])
        ELSE NoStep

\* the "adjust_year" strategy of filing_not_found
AdjustYear(failed_step, attempted_approaches) ==
    LET original_params == ParamsOrEmpty(failed_step)
        year == original_params.year
        new_year == year + year_offset
        already_tried == AnyParameter(attempted_approaches, "year", new_year)
    IN  IF year = NoYear THEN NoStep
        ELSE IF already_tried = "raise" THEN Raised
        ELSE IF already_tried = "false" /\ new_year >= earliest_year
        THEN SomeStep([failed_step EXCEPT
                 !.tool_parameters = [original_params EXCEPT !.year = new_year]])
        ELSE NoStep

_fallback_filing_not_found(failed_step, attempted_approaches) ==
    LET original_params == ParamsOrEmpty(failed_step)
        form_type == original_params.form_type
        alt_form == alternative_forms(form_type)
        already_tried == AnyParameter(attempted_approaches, "form_type", alt_form)
    IN  IF form_type # NoForm /\ alt_form # NoForm
        THEN IF already_tried = "raise" THEN Raised
             ELSE IF already_tried = "false"
             THEN SomeStep([failed_step EXCEPT
                      !.tool_parameters = [original_params EXCEPT !.form_type = alt_form]])
             ELSE AdjustYear(failed_step, attempted_approaches)
        ELSE AdjustYear(failed_step, attempted_approaches)

\* original_params.get('identifier') or original_params.get('cik_or_ticker')
Identifier(params) ==
    IF params.identifier # NoText THEN params.identifier ELSE params.cik_or_ticker

\* the "remove_suffixes" strategy of company_not_found, from suffix k on
RECURSIVE RemoveSuffix(_, _, _)
RemoveSuffix(failed_step, attempted_approaches, k) ==
    LET original_params == ParamsOrEmpty(failed_step)
        identifier == Identifier(original_params)
        suffix == remove_suffixes[k]
        clean_identifier == Strip(SubSeq(identifier, 1, Len(identifier) - Len(suffix)))
        already_tried == AnyParameter(attempted_approaches, "identifier", clean_identifier)
    IN  IF k > Len(remove_suffixes) THEN NoStep
        ELSE IF ~EndsWith(identifier, suffix)
        THEN RemoveSuffix(failed_step, attempted_approaches, k + 1)
        ELSE IF already_tried = "raise" THEN Raised
        ELSE IF already_tried = "false"
        THEN SomeStep([failed_step EXCEPT
                 !.tool_parameters = [original_params EXCEPT !.identifier = clean_identifier]])
        ELSE RemoveSuffix(failed_step, attempted_approaches, k + 1)

\* variant: the search step keeps the name under the key identifier
_fallback_company_not_found_identifier_key(failed_step, attempted_approaches) ==
    LET original_params == ParamsOrEmpty(failed_step)
        identifier == Identifier(original_params)
    IN  IF identifier = NoText THEN NoStep
        ELSE IF ~AnyTool(attempted_approaches, "search_companies")
        THEN SomeStep([step |-> failed_step.step,
                       action_type |-> "tool_call",
                       description |-> <<"S","e","a","r","c","h"," ","f","o","r"," ","c","o","m","p","a","n","y",":"," ">> \o identifier,
                       tool |-> "search_companies",
                       tool_parameters |->
                           [EmptyParams EXCEPT !.identifier = identifier,
                                               !.limit = search_limit]])
        ELSE RemoveSuffix(failed_step, attempted_approaches, 1)

_fallback_company_not_found(failed_step, attempted_approaches) ==
    LET original_params == ParamsOrEmpty(failed_step)
        identifier == Identifier(original_params)
    IN  IF identifier = NoText THEN NoStep
        ELSE IF ~AnyTool(attempted_approaches, "search_companies")
        THEN SomeStep([step |-> failed_step.step,
                       action_type |-> "tool_call",
                       description |-> <<"S","e","a","r","c","h"," ","f","o","r"," ","c","o","m","p","a","n","y",":"," ">> \o identifier,
                       tool |-> "search_companies",
                       tool_parameters |->
                           [EmptyParams EXCEPT !.query = identifier,
                                               !.limit = search_limit]])
        ELSE RemoveSuffix(failed_step, attempted_approaches, 1)

_fallback_data_not_found(failed_step, attempted_approaches) ==
    LET original_params == ParamsOrEmpty(failed_step)
        identifier == Identifier(original_params)
    IN  IF ~AnyTool(attempted_approaches, "get_company_facts") /\ identifier # NoText
        THEN SomeStep([step |-> failed_step.step,
                       action_type |-> "tool_call",
                       description |-> <<"G","e","t"," ","c","o","m","p","a","n","y"," ","f","a","c","t","s"," ","a","s"," ","a","l","t","e","r","n","a","t","i","v","e">>,
                       tool |-> "get_company_facts",
                       tool_parameters |->
                           [EmptyParams EXCEPT !.identifier = identifier]])
        ELSE NoStep

\* variant: the company terms are looked for before the filing terms
_try_predefined_fallback_company_first(failed_step, error_message, attempted_approaches) ==
    LET error_lower == Lower(error_message) IN
    IF Contains(error_lower, <<"n","o","t"," ","f","o","u","n","d">>) \/ Contains(error_lower, <<"n","o"," ","f","i","l","i","n","g","s"," ","f","o","u","n","d">>)
    THEN IF Contains(error_lower, <<"c","o","m","p","a","n","y">>) \/ Contains(error_lower, <<"c","i","k">>)
         THEN _fallback_company_not_found(failed_step, attempted_approaches)
         ELSE IF \/ Contains(error_lower, <<"f","i","l","i","n","g">>)
                 \/ Contains(error_lower, <<"1","0","-","k">>)
                 \/ Contains(error_lower, <<"1","0","-","q">>)
         THEN _fallback_filing_not_found(failed_step, attempted_approaches)
         ELSE _fallback_data_not_found(failed_step, attempted_approaches)
    ELSE NoStep

_try_predefined_fallback(failed_step, error_message, attempted_approaches) ==
    LET error_lower == Lower(error_message) IN
    IF Contains(error_lower, <<"n","o","t"," ","f","o","u","n","d">>) \/ Contains(error_lower, <<"n","o"," ","f","i","l","i","n","g","s"," ","f","o","u","n","d">>)
    THEN IF \/ Contains(error_lower, <<"f","i","l","i","n","g">>)
            \/ Contains(error_lower, <<"1","0","-","k">>)
            \/ Contains(error_lower, <<"1","0","-","q">>)
         THEN _fallback_filing_not_found(failed_step, attempted_approaches)
         ELSE IF Contains(error_lower, <<"c","o","m","p","a","n","y">>) \/ Contains(error_lower, <<"c","i","k">>)
         THEN _fallback_company_not_found(failed_step, attempted_approaches)
         ELSE _fallback_data_not_found(failed_step, attempted_approaches)
    ELSE NoStep

(***************************************************************************)
(* SingleStepExecutor                                                      *)
(***************************************************************************)
\* What the environment does with one invocation of a registered tool:
\*   ok               the tool returns a result with success = True
\*   method_missing   getattr(tool_instance, method_name) raises AttributeError
\*   bad_arguments    the call raises TypeError: the keys of the parameter
\*                    map do not fit the signature of the method, or the
\*                    method itself raises a TypeError without a message
\*   reported         the tool returns success = False with 'error' = text
\*   no_error_field   the tool returns success = False / absent, no 'error'
\*   exception        the tool raises another Exception whose str() is text
ReportedErrors ==
    { <<"I","n","v","a","l","i","d"," ","C","I","K"," ","f","o","r","m","a","t">>,
      <<"1","0","-","K"," ","f","i","l","i","n","g"," ","n","o","t"," ","f","o","u","n","d"," ","f","o","r"," ","X","Y","Z">>,
      <<"N","o"," ","1","0","-","K"," ","f","i","l","i","n","g","s"," ","f","o","u","n","d"," ","f","o","r"," ","X","Y","Z"," ","i","n"," ","2","0","2","3">>,
      <<"C","o","m","p","a","n","y"," ","n","o","t"," ","f","o","u","n","d">>,
      <<"M","e","t","r","i","c"," ","n","o","t"," ","f","o","u","n","d">> }

RaisedErrors ==
    { <<"R","a","t","e"," ","l","i","m","i","t"," ","e","x","c","e","e","d","e","d">>,
      <<"A","u","t","h","e","n","t","i","c","a","t","i","o","n"," ","f","a","i","l","e","d",":"," ","r","a","t","e"," ","l","i","m","i","t"," ","e","x","c","e","e","d","e","d">> }

ToolOutcomes ==
    { [kind |-> k, text |-> NoText] :
          k \in {"ok", "method_missing", "bad_arguments", "no_error_field"} }
    \cup { [kind |-> "reported", text |-> t] : t \in ReportedErrors }
    \cup { [kind |-> "exception", text |-> t] : t \in RaisedErrors }

\* the keys a parameter map may hold, in the order the plans write them
ParameterKeys ==
    << "identifier", "cik_or_ticker", "form_type", "year", "query", "limit" >>

\* key in tool_params
HasKey(params, key) ==
    CASE key = "identifier"    -> params.identifier # NoText
      [] key = "cik_or_ticker" -> params.cik_or_ticker # NoText
      [] key = "form_type"     -> params.form_type # NoForm
      [] key = "year"          -> params.year # NoYear
      [] key = "query"         -> params.query # NoText
      [] key = "limit"         -> params.limit # 0
      [] OTHER                 -> FALSE

\* repr() of a key or of a parameter name
KeyText(key) ==
    CASE key = "identifier"       -> <<"'","i","d","e","n","t","i","f","i","e","r","'">>
      [] key = "cik_or_ticker"    -> <<"'","c","i","k","_","o","r","_","t","i","c","k","e","r","'">>
      [] key = "form_type"        -> <<"'","f","o","r","m","_","t","y","p","e","'">>
      [] key = "year"             -> <<"'","y","e","a","r","'">>
      [] key = "query"            -> <<"'","q","u","e","r","y","'">>
      [] key = "limit"            -> <<"'","l","i","m","i","t","'">>
      [] key = "ticker"           -> <<"'","t","i","c","k","e","r","'">>
      [] OTHER                    -> <<"'","a","c","c","e","s","s","i","o","n","_","n","u","m","b","e","r","'">>

\* the parameters of the tool methods (company.py lines 21, 41, 68, 85,
\* filings.py lines 27-33, 84, 139, 202)
Accepted(tool) ==
    CASE tool = "get_cik_by_ticker"   -> {"ticker"}
      [] tool = "get_company_info"    -> {"identifier"}
      [] tool = "search_companies"    -> {"query", "limit"}
      [] tool = "get_company_facts"   -> {"identifier"}
      [] tool = "get_recent_filings"  -> {"identifier", "form_type", "days", "limit"}
      [] tool = "get_filing_content"  -> {"identifier", "accession_number"}
      [] tool = "analyze_8k"          -> {"identifier", "accession_number"}
      [] OTHER -> {"identifier", "accession_number", "form_type"}

\* those without a default value, in the order of the signature
Required(tool) ==
    CASE tool = "get_cik_by_ticker"   -> << "ticker" >>
      [] tool = "get_company_info"    -> << "identifier" >>
      [] tool = "search_companies"    -> << "query" >>
      [] tool = "get_company_facts"   -> << "identifier" >>
      [] tool = "get_recent_filings"  -> << >>
      [] tool = "get_filing_content"  -> << "identifier", "accession_number" >>
      [] tool = "analyze_8k"          -> << "identifier", "accession_number" >>
      [] OTHER -> << "identifier", "accession_number", "form_type" >>

\* the keys of the call that the method has no parameter for
Unexpected(step) ==
    SelectSeq(ParameterKeys,
              LAMBDA key : /\ HasKey(ParamsOrEmpty(step), key)
                           /\ key \notin Accepted(step.tool))

\* the required parameters the call gives no value for
Missing(step) ==
    SelectSeq(Required(step.tool),
              LAMBDA key : ~HasKey(ParamsOrEmpty(step), key))

\* the qualified name CPython puts in front of the message
QualifiedName(tool) ==
    (IF tool \in FilingsToolNames THEN <<"F","i","l","i","n","g","s","T","o","o","l","s",".">> ELSE <<"C","o","m","p","a","n","y","T","o","o","l","s",".">>)
        \o ToolText(tool) \o <<"(",")">>

\* the list of names that closes the message of a call with missing arguments
MissingText(names) ==
    CASE Len(names) = 1 ->
             <<" ","m","i","s","s","i","n","g"," ","1"," ","r","e","q","u","i","r","e","d"," ","p","o","s","i","t","i","o","n","a","l"," ","a","r","g","u","m","e","n","t",":"," ">> \o KeyText(names[1])
      [] Len(names) = 2 ->
             <<" ","m","i","s","s","i","n","g"," ","2"," ","r","e","q","u","i","r","e","d"," ","p","o","s","i","t","i","o","n","a","l"," ","a","r","g","u","m","e","n","t","s",":"," ">> \o KeyText(names[1])
                 \o <<" ","a","n","d"," ">> \o KeyText(names[2])
      [] OTHER ->
             <<" ","m","i","s","s","i","n","g"," ","3"," ","r","e","q","u","i","r","e","d"," ","p","o","s","i","t","i","o","n","a","l"," ","a","r","g","u","m","e","n","t","s",":"," ">> \o KeyText(names[1])
                 \o <<","," ">> \o KeyText(names[2]) \o <<","," ","a","n","d"," ">> \o KeyText(names[3])

\* str(e) of the TypeError: the message of the call that does not fit the
\* signature, else the message of the TypeError the method raised
TypeErrorText(step, outcome) ==
    IF Unexpected(step) # << >>
    THEN QualifiedName(step.tool) \o <<" ","g","o","t"," ","a","n"," ","u","n","e","x","p","e","c","t","e","d"," ","k","e","y","w","o","r","d"," ","a","r","g","u","m","e","n","t"," ">>
             \o KeyText(Unexpected(step)[1])
    ELSE IF Missing(step) # << >>
    THEN QualifiedName(step.tool) \o MissingText(Missing(step))
    ELSE outcome.text

Success == [ok |-> TRUE, error |-> NoText, invoked |-> 1]
Failure(text, invoked) == [ok |-> FALSE, error |-> text, invoked |-> invoked]

\* variant: a failed invocation is made a second time
_execute_single_tool_step_retrying(step, outcome) ==
    IF step.tool = NoTool \/ step.tool \notin tool_registry
    THEN Failure(<<"I","n","v","a","l","i","d"," ","t","o","o","l"," ","'">> \o ToolText(step.tool) \o <<"'">>, 0)
    ELSE CASE outcome.kind = "ok" -> Success
           [] outcome.kind = "method_missing" ->
                  Failure(<<"M","e","t","h","o","d"," ","'">> \o ToolText(step.tool) \o <<"'"," ","n","o","t"," ","f","o","u","n","d"," ","o","n"," ","t","o","o","l">>, 0)
           [] outcome.kind = "bad_arguments" ->
                  Failure(<<"I","n","v","a","l","i","d"," ","p","a","r","a","m","e","t","e","r","s"," ","f","o","r"," ">> \o ToolText(step.tool)
                              \o <<":"," ">> \o TypeErrorText(step, outcome), 2)
           [] outcome.kind = "no_error_field" -> Failure(<<"U","n","k","n","o","w","n"," ","e","r","r","o","r">>, 2)
           [] OTHER -> Failure(outcome.text, 2)

\* ok: a result is returned; otherwise error is the message of the raised
\* Exception; invoked counts the calls of the tool method
_execute_single_tool_step(step, outcome) ==
    IF step.tool = NoTool \/ step.tool \notin tool_registry
    THEN Failure(<<"I","n","v","a","l","i","d"," ","t","o","o","l"," ","'">> \o ToolText(step.tool) \o <<"'">>, 0)
    ELSE CASE outcome.kind = "ok" -> Success
           [] outcome.kind = "method_missing" ->
                  Failure(<<"M","e","t","h","o","d"," ","'">> \o ToolText(step.tool) \o <<"'"," ","n","o","t"," ","f","o","u","n","d"," ","o","n"," ","t","o","o","l">>, 0)
           [] outcome.kind = "bad_arguments" ->
                  Failure(<<"I","n","v","a","l","i","d"," ","p","a","r","a","m","e","t","e","r","s"," ","f","o","r"," ">> \o ToolText(step.tool)
                              \o <<":"," ">> \o TypeErrorText(step, outcome), 1)
           [] outcome.kind = "no_error_field" -> Failure(<<"U","n","k","n","o","w","n"," ","e","r","r","o","r">>, 1)
           [] OTHER -> Failure(outcome.text, 1)

\* step.get('description', 'Unknown step')
Description(step) ==
    IF step.description = NoText THEN <<"U","n","k","n","o","w","n"," ","s","t","e","p">> ELSE step.description

skipped_step_no == -1

\* a record of the trace; keys a Python record lacks hold the None encodings
Record(step_num, description, status, action_type, tool, parameters, error) ==
    [step |-> step_num, description |-> description, status |-> status,
     action_type |-> action_type, tool |-> tool, parameters |-> parameters,
     error |-> error, partial_success |-> (status = "failed"),
     skipped_steps |-> <<>>]

\* variant: the record takes the step number the executed step declares
SuccessRecord_declared_number(step, step_num, description) ==
    Record(step.step, description, "success", "tool_call", step.tool,
           ParamsOrEmpty(step), NoText)

SuccessRecord(step, step_num, description) ==
    Record(step_num, description, "success", "tool_call", step.tool,
           ParamsOrEmpty(step), NoText)

ReasoningRecord(step) ==
    Record(step.step, Description(step), "completed", "reasoning", NoTool,
           NoParams, NoText)

\* variant: a synthesis step is recorded as completed
SynthesisRecord_completed(step) ==
    Record(step.step, Description(step), "completed", "synthesis", NoTool,
           NoParams, NoText)

SynthesisRecord(step) ==
    Record(step.step, Description(step), "pending", "synthesis", NoTool,
           NoParams, NoText)

(***************************************************************************)
(* Partial result                                                          *)
(***************************************************************************)
\* str() of a small natural number, as the f-string of the skip note prints it
IntText(n) ==
    CASE n = 0 -> <<"0">> [] n = 1 -> <<"1">> [] n = 2 -> <<"2">> [] n = 3 -> <<"3">>
      [] n = 4 -> <<"4">> [] n = 5 -> <<"5">> [] n = 6 -> <<"6">> [] n = 7 -> <<"7">>
      [] n = 8 -> <<"8">> [] OTHER -> <<"9">>

SkippedNote(steps_left) ==
    [Record(skipped_step_no,
            <<"S","k","i","p","p","e","d"," ">> \o IntText(Len(steps_left))
                \o <<" ","r","e","m","a","i","n","i","n","g"," ","s","t","e","p","s"," ","d","u","e"," ","t","o"," ","f","a","i","l","u","r","e">>,
            "skipped", "note", NoTool, NoParams, NoText)
     EXCEPT !.skipped_steps =
         [k \in 1..Len(steps_left) |-> steps_left[k].description]]

FailedRecord(failed_step, failed_step_num, error) ==
    Record(failed_step_num,
           IF failed_step.description = NoText THEN <<"F","a","i","l","e","d"," ","s","t","e","p">>
           ELSE failed_step.description,
           "failed", "tool_call", failed_step.tool, failed_step.tool_parameters,
           error)

\* variant: the skip note is appended before the failed record
_handle_partial_success_note_first(completed_steps, failed_step, failed_step_num, steps_left, error) ==
    IF steps_left # <<>>
    THEN Append(Append(completed_steps, SkippedNote(steps_left)),
                FailedRecord(failed_step, failed_step_num, error))
    ELSE Append(completed_steps, FailedRecord(failed_step, failed_step_num, error))

_handle_partial_success(completed_steps, failed_step, failed_step_num, steps_left, error) ==
    LET with_failed ==
            Append(completed_steps, FailedRecord(failed_step, failed_step_num, error))
    IN  IF steps_left # <<>>
        THEN Append(with_failed, SkippedNote(steps_left))
        ELSE with_failed

(***************************************************************************)
(* LLMReplanner                                                            *)
(***************************************************************************)
\* steps the reasoning collaborator may answer with
ReplannedSteps ==
    { [step |-> 7, action_type |-> "tool_call", description |-> NoText,
       tool |-> "get_recent_filings",
       tool_parameters |-> [EmptyParams EXCEPT !.identifier = <<"X","Y","Z">>,
                                               !.form_type = "10-K",
                                               !.year = 2011]],
      [step |-> 2, action_type |-> "tool_call", description |-> <<"w","i","d","g","e","t">>,
       tool |-> "lookup_widget",
       tool_parameters |-> EmptyParams] }

\* what llm.call does with the one request of an invocation
LLMReplies ==
    { [kind |-> k, step |-> NullStep] :
          k \in {"raises", "empty", "not_json", "no_tool", "no_tool_parameters"} }
    \cup { [kind |-> "step", step |-> s] : s \in ReplannedSteps }

\* variant: a reply that yields no step is requested a second time
_replan_with_llm_retrying(reply) ==
    [kind |-> IF reply.kind = "step" THEN "step" ELSE "none",
     step |-> IF reply.kind = "step" THEN reply.step ELSE NullStep,
     requests |-> IF reply.kind = "step" THEN 1 ELSE 2]

\* kind and step: the Optional[Dict] returned; requests: the calls of llm.call
_replan_with_llm(reply) ==
    [kind |-> IF reply.kind = "step" THEN "step" ELSE "none",
     step |-> IF reply.kind = "step" THEN reply.step ELSE NullStep,
     requests |-> 1]

(***************************************************************************)
(* Plans                                                                   *)
(***************************************************************************)
MaxPlanLen == 5

ReasoningStep ==
    [step |-> 1, action_type |-> "reasoning", description |-> <<"r","e","s","o","l","v","e"," ","y","e","a","r">>,
     tool |-> NoTool, tool_parameters |-> NoParams]

FilingsStep ==
    [step |-> 2, action_type |-> "tool_call", description |-> <<"g","e","t"," ","f","i","l","i","n","g","s">>,
     tool |-> "get_recent_filings",
     tool_parameters |-> [EmptyParams EXCEPT !.identifier = <<"X","Y","Z">>,
                                             !.form_type = "10-K",
                                             !.year = 2023]]

CompanyStep ==
    [step |-> 3, action_type |-> "tool_call", description |-> <<"g","e","t"," ","c","o","m","p","a","n","y">>,
     tool |-> "get_company_info",
     tool_parameters |-> [EmptyParams EXCEPT !.identifier = <<"A","c","m","e"," ","I","n","c">>]]

\* a tool_call step that carries no tool_parameters
BareStep ==
    [step |-> 4, action_type |-> "tool_call", description |-> <<"g","e","t"," ","f","a","c","t","s">>,
     tool |-> "get_company_facts", tool_parameters |-> NoParams]

SynthesisStep ==
    [step |-> 5, action_type |-> "synthesis", description |-> <<"a","n","s","w","e","r">>,
     tool |-> NoTool, tool_parameters |-> NoParams]

\* a tool_call step that names no tool
ToollessStep ==
    [step |-> 1, action_type |-> "tool_call", description |-> <<"n","o"," ","t","o","o","l">>,
     tool |-> NoTool, tool_parameters |-> EmptyParams]

\* a step whose action_type the engine does not know
UnknownStep ==
    [step |-> 2, action_type |-> "analysis", description |-> <<"a","n","a","l","y","s","e">>,
     tool |-> NoTool, tool_parameters |-> NoParams]

ScenarioPlans ==
    { << ReasoningStep, BareStep, CompanyStep, FilingsStep, SynthesisStep >>,
      << ReasoningStep, FilingsStep >>,
      << CompanyStep, SynthesisStep >>,
      << BareStep, SynthesisStep >>,
      << ToollessStep, SynthesisStep >>,
      << ReasoningStep, UnknownStep, SynthesisStep >>,
      << ReasoningStep, SynthesisStep >>,
      << ReasoningStep, CompanyStep, SynthesisStep, UnknownStep, FilingsStep,
         SynthesisStep >> }

\* the plans of a run: the scenario plans of at most MaxPlanLen steps
Plans == { p \in ScenarioPlans : Len(p) <= MaxPlanLen }

(***************************************************************************)
(* PlanExecutionEngine: _execute_plan_with_replanning                      *)
(***************************************************************************)
VARIABLES
    heap,                 \* the dicts of steps and of parameter maps alive
    plan_refs,            \* the positions in heap of the dicts of plan
    current_ref,          \* the position in heap of the dict of current_step
    plan,                 \* the plan argument, as read from its dicts
    step_index,           \* position in plan of the step of the for loop (from 1)
    step_results,         \* the trace built so far
    total_replannings,
    replanning_attempts,
    attempted_approaches,
    current_step,
    pc,                   \* "for": top of the for loop, "while": top of the
                          \* retry loop, "replanning": inside llm.call of the
                          \* replanner, "returned", "raised"; of run:
                          \* "validate", "planning", "done" (run returned),
                          \* "propagated" (run raised)
    executions,           \* history: calls of _execute_single_tool_step per plan position
    failures,             \* history: failed executions per plan position
    fallback_calls,       \* history: calls of _try_predefined_fallback
    llm_calls,            \* history: calls of _replan_with_llm
    llm_requests,         \* history: calls of llm.call made by _replan_with_llm
    llm_reply,            \* history: what the last call of llm.call did
    adoptions,            \* history: replacement steps adopted per plan position
    exhausted_seen,       \* history: a budget counter has reached its maximum
    error_message,        \* the argument of a direct call of _classify_error
    error_type,           \* what that call returned ("None" before it)
    running,              \* the thread whose call of the engine is executing
    suspended,            \* the calls of the other threads, each with its locals
    instructions,         \* what closes the synthesis prompt ("None" before it is built)
    validation_result,    \* what validate_and_enrich answered to run
    response              \* what run returned (NoResponse while it has not)

vars ==
    << heap, plan_refs, current_ref, plan, step_index, step_results, total_replannings, replanning_attempts,
       attempted_approaches, current_step, pc, executions, failures,
       fallback_calls, llm_calls, llm_requests, llm_reply, adoptions,
       exhausted_seen, error_message, error_type, running, suspended,
       instructions, validation_result, response >>

locals == << replanning_attempts, attempted_approaches, current_step,
             current_ref >>
llm == << llm_calls, llm_requests, llm_reply >>
history == << executions, failures, fallback_calls, llm, adoptions,
             exhausted_seen >>

classified == << error_message, error_type >>
threads == << running, suspended >>
request == << validation_result, response >>

\* one call of the engine and nothing beside it
SingleRun ==
    /\ running = 1
    /\ suspended = <<>>

\* a value of validate_and_enrich: its status, its message ("None" without
\* one) and whether it holds the key enriched_query
Validation(status, message, enriched_query) ==
    [status |-> status, message |-> message, enriched_query |-> enriched_query]

\* query_validator.py line 224
Valid == Validation("valid", "None", TRUE)

NoResponse == [kind |-> "None", content |-> "None"]

\* run is past its validation stage with a plan in hand, and has not returned
Admitted ==
    /\ validation_result = Valid
    /\ response = NoResponse

\* a message with what it was put together from: whether a phrase of the
\* unrecoverable list, of the rate-limit list, in any letter case, is in it
Tagged(text, unrecoverable, rate_limit) ==
    [text |-> text, unrecoverable |-> unrecoverable, rate_limit |-> rate_limit]

NoMessage == Tagged(NoText, FALSE, FALSE)

\* lines 333-334 and the locals of the for loop before its first step
Start ==
    /\ step_index = 1
    /\ step_results = <<>>
    /\ total_replannings = 0
    /\ replanning_attempts = 0
    /\ attempted_approaches = <<>>
    /\ current_step = NullStep
    /\ current_ref = None
    /\ pc = "for"
    /\ executions = [k \in 1..Len(plan) |-> 0]
    /\ failures = [k \in 1..Len(plan) |-> 0]
    /\ fallback_calls = 0
    /\ llm_calls = 0
    /\ llm_requests = 0
    /\ llm_reply = "None"
    /\ adoptions = [k \in 1..Len(plan) |-> 0]
    /\ exhausted_seen = FALSE

\* the dicts of the plan of the one call are the only ones
OwnPlan ==
    /\ heap = Parsed(NoObjects, plan)
    /\ plan_refs = Made(NoObjects, plan)

Init ==
    /\ SingleRun
    /\ plan \in Plans
    /\ OwnPlan
    /\ Start
    /\ error_message = NoMessage
    /\ error_type = "None"
    /\ instructions = "None"
    /\ Admitted

step == plan[step_index]
\* variant: the slice starts at the failed step
remaining_steps_from_failed == SubSeq(plan, step_index, Len(plan))

\* plan[step_index + 1:] of the Python loop, whose step_index counts from 0
remaining_steps == SubSeq(plan, step_index + 1, Len(plan))

AtStep(action_type) ==
    /\ pc = "for"
    /\ step_index <= Len(plan)
    /\ step.action_type = action_type

\* lines 345-356
Reasoning ==
    /\ AtStep("reasoning")
    /\ step_results' = Append(step_results, ReasoningRecord(step))
    /\ step_index' = step_index + 1
    /\ UNCHANGED << heap, plan_refs, plan, classified, threads, request, instructions, total_replannings, locals, pc, history >>

\* lines 359-369
Synthesis ==
    /\ AtStep("synthesis")
    /\ step_results' = Append(step_results, SynthesisRecord(step))
    /\ step_index' = step_index + 1
    /\ UNCHANGED << heap, plan_refs, plan, classified, threads, request, instructions, total_replannings, locals, pc, history >>

\* lines 371-375: entry of the tool_call branch
BeginToolCall ==
    /\ AtStep("tool_call")
    /\ attempted_approaches' = <<>>
    /\ replanning_attempts' = 0
    /\ current_ref' = plan_refs[step_index]
    /\ current_step' = Load(heap, current_ref')
    /\ pc' = "while"
    /\ UNCHANGED << heap, plan_refs, plan, classified, threads, request, instructions, step_index, step_results, total_replannings, history >>

\* lines 476-486
UnknownActionType ==
    /\ pc = "for"
    /\ step_index <= Len(plan)
    /\ step.action_type \notin {"reasoning", "synthesis", "tool_call"}
    /\ step_results' =
           _handle_partial_success(step_results, step, step.step, remaining_steps,
               <<"S","t","e","p"," ">> \o IntText(step.step) \o <<" ","f","a","i","l","e","d",":"," ","U","n","k","n","o","w","n"," ","a","c","t","i","o","n","_","t","y","p","e"," ","'">>
                   \o ActionTypeText(step.action_type) \o <<"'">>)
    /\ pc' = "returned"
    /\ UNCHANGED << heap, plan_refs, plan, classified, threads, request, instructions, step_index, total_replannings, locals, history >>

\* lines 488-489: the for loop is over
AllStepsExecuted ==
    /\ pc = "for"
    /\ step_index > Len(plan)
    /\ pc' = "returned"
    /\ UNCHANGED << heap, plan_refs, plan, classified, threads, request, instructions, step_index, step_results, total_replannings, locals, history >>

\* variant: only the last record of the trace is looked at
has_failures_last_record(trace) ==
    trace # <<>> /\ trace[Len(trace)].status = "failed"

\* line 917
has_failures(trace) == \E k \in 1..Len(trace) : trace[k].status = "failed"

\* lines 945-958: the instructions that close the synthesis prompt
_synthesize_answer(trace) ==
    IF has_failures(trace) THEN "partial_success" ELSE "clean_completion"

\* run, lines 155-158: the trace returned by the engine is synthesized
SynthesizeAnswer ==
    /\ pc = "returned"
    /\ instructions = "None"
    /\ instructions' = _synthesize_answer(step_results)
    /\ UNCHANGED << heap, plan_refs, plan, classified, threads, request, step_index, step_results, total_replannings, locals, pc, history >>

\* the retry loop is at its top and its condition (line 377) holds
InRetryLoop ==
    /\ pc = "while"
    /\ replanning_attempts <= max_replanning_attempts

\* line 380 under the environment's outcome
Attempt(outcome) == _execute_single_tool_step(current_step, outcome)

\* lines 392-396
AttemptRecord(error_msg) ==
    [tool |-> current_step.tool, parameters |-> current_step.tool_parameters,
     error |-> error_msg]

\* variant: the comparison is strict
AttemptsExhausted_strict == replanning_attempts > max_replanning_attempts

\* line 399
AttemptsExhausted == replanning_attempts >= max_replanning_attempts

\* variant: the comparison is strict
BudgetExceeded_strict == total_replannings > max_total_replannings

\* line 411
BudgetExceeded == total_replannings >= max_total_replannings

\* variant: a RATE_LIMIT classification ends the run as well
IsUnrecoverable_or_rate_limit(class) == class # "RECOVERABLE"

\* line 425
IsUnrecoverable(class) == class = "UNRECOVERABLE"

ExceededText == <<"E","x","c","e","e","d","e","d"," ","m","a","x","i","m","u","m"," ","r","e","p","l","a","n","n","i","n","g"," ","a","t","t","e","m","p","t","s"," ","f","o","r"," ","t","h","i","s"," ","q","u","e","r","y">>
\* variant: the abort reuses the message of the spent budget
NoAlternativeText_budget == <<"E","x","c","e","e","d","e","d"," ","m","a","x","i","m","u","m"," ","r","e","p","l","a","n","n","i","n","g"," ","a","t","t","e","m","p","t","s"," ","f","o","r"," ","t","h","i","s"," ","q","u","e","r","y">>

NoAlternativeText == <<"C","o","u","l","d"," ","n","o","t"," ","f","i","n","d"," ","a","l","t","e","r","n","a","t","i","v","e"," ","a","p","p","r","o","a","c","h">>

\* bookkeeping of one call of _execute_single_tool_step
Executed(result) ==
    /\ executions' = [executions EXCEPT ![step_index] = @ + 1]
    /\ failures' = [failures EXCEPT ![step_index] = IF result.ok THEN @ ELSE @ + 1]

\* lines 380-385
ToolSucceeds(outcome) ==
    /\ InRetryLoop
    /\ Attempt(outcome).ok
    /\ step_results' =
           Append(step_results, SuccessRecord(current_step, step.step, Description(step)))
    /\ step_index' = step_index + 1
    /\ pc' = "for"
    /\ Executed(Attempt(outcome))
    /\ UNCHANGED << heap, plan_refs, plan, classified, threads, request, instructions, total_replannings, locals, fallback_calls, llm,
                    adoptions, exhausted_seen >>

\* lines 387-396: the execution raised and the attempt is recorded
Fails(outcome) ==
    /\ InRetryLoop
    /\ ~Attempt(outcome).ok
    /\ attempted_approaches' =
           Append(attempted_approaches, AttemptRecord(Attempt(outcome).error))
    /\ Executed(Attempt(outcome))

\* return self._handle_partial_success(...) of the retry loop
Abort(error) ==
    /\ step_results' =
           _handle_partial_success(step_results, current_step, step.step,
                                   remaining_steps, error)
    /\ pc' = "returned"
    /\ UNCHANGED << heap, plan_refs, plan, classified, threads, request, instructions, step_index, total_replannings, replanning_attempts,
                    current_step, current_ref, adoptions, exhausted_seen >>

\* lines 398-408
AbortExhausted(outcome) ==
    /\ Fails(outcome)
    /\ AttemptsExhausted
    /\ Abort(Attempt(outcome).error)
    /\ UNCHANGED << fallback_calls, llm >>

\* lines 410-419
AbortBudget(outcome) ==
    /\ Fails(outcome)
    /\ ~AttemptsExhausted
    /\ BudgetExceeded
    /\ Abort(ExceededText)
    /\ UNCHANGED << fallback_calls, llm >>

\* lines 421-434
AbortUnrecoverable(outcome) ==
    /\ Fails(outcome)
    /\ ~AttemptsExhausted
    /\ ~BudgetExceeded
    /\ IsUnrecoverable(_classify_error(Attempt(outcome).error))
    /\ Abort(Attempt(outcome).error)
    /\ UNCHANGED << fallback_calls, llm >>

\* the failure reaches the recovery layers (line 436)
Recoverable(outcome) ==
    /\ Fails(outcome)
    /\ ~AttemptsExhausted
    /\ ~BudgetExceeded
    /\ ~IsUnrecoverable(_classify_error(Attempt(outcome).error))
    /\ fallback_calls' = fallback_calls + 1

\* lines 438-442
Fallback(outcome) ==
    _try_predefined_fallback(current_step, Attempt(outcome).error,
        Append(attempted_approaches, AttemptRecord(Attempt(outcome).error)))

\* variant: the replanner is asked although a fallback step exists
NoFallback_unchecked(outcome) == Fallback(outcome).kind # "raise"

\* lines 444 and 451: fallback_step is None
NoFallback(outcome) == Fallback(outcome).kind = "none"

\* variant: the per-step counter is not incremented
Adopt_uncounted(objects) ==
    /\ heap' = objects
    /\ current_ref' = Len(objects.steps)
    /\ current_step' = Load(heap', current_ref')
    /\ replanning_attempts' = replanning_attempts
    /\ total_replannings' = total_replannings + 1
    /\ adoptions' = [adoptions EXCEPT ![step_index] = @ + 1]
    /\ exhausted_seen' =
           \/ exhausted_seen
           \/ total_replannings + 1 >= max_total_replannings
    /\ plan_refs' = plan_refs
    /\ plan' = Loaded(heap', plan_refs')
    /\ pc' = "while"
    /\ UNCHANGED << classified, threads, request, instructions, step_index, step_results >>

\* lines 446-448 and 464-466: current_step = fallback_step or replanned_step,
\* the dict that was made last; plan is the list it was, of the dicts it
\* held
Adopt(objects) ==
    /\ heap' = objects
    /\ current_ref' = Len(objects.steps)
    /\ current_step' = Load(heap', current_ref')
    /\ replanning_attempts' = replanning_attempts + 1
    /\ total_replannings' = total_replannings + 1
    /\ adoptions' = [adoptions EXCEPT ![step_index] = @ + 1]
    /\ exhausted_seen' =
           \/ exhausted_seen
           \/ replanning_attempts + 1 >= max_replanning_attempts
           \/ total_replannings + 1 >= max_total_replannings
    /\ plan_refs' = plan_refs
    /\ plan' = Loaded(heap', plan_refs')
    /\ pc' = "while"
    /\ UNCHANGED << classified, threads, request, instructions, step_index, step_results >>

\* lines 444-449
AdoptFallback(outcome) ==
    /\ Recoverable(outcome)
    /\ Fallback(outcome).kind = "step"
    /\ Adopt(FallbackObjects(heap, current_ref, Fallback(outcome).step))
    /\ UNCHANGED llm

\* an exception of _try_predefined_fallback leaves the except block and the
\* function
FallbackRaises(outcome) ==
    /\ Recoverable(outcome)
    /\ Fallback(outcome).kind = "raise"
    /\ pc' = "raised"
    /\ UNCHANGED << heap, plan_refs, plan, classified, threads, request, instructions, step_index, step_results, total_replannings,
                    replanning_attempts, current_step, current_ref, llm, adoptions,
                    exhausted_seen >>

\* lines 451-459: no fallback step, _replan_with_llm is entered and waits
\* in llm.call for the reply
AskReplanner(outcome) ==
    /\ Recoverable(outcome)
    /\ NoFallback(outcome)
    /\ llm_calls' = llm_calls + 1
    /\ pc' = "replanning"
    /\ UNCHANGED << heap, plan_refs, plan, classified, threads, request, instructions, step_index, step_results, total_replannings,
                    replanning_attempts, current_step, current_ref, llm_requests, llm_reply,
                    adoptions, exhausted_seen >>

\* llm.call is over in _replan_with_llm (lines 735-815)
Replanned(reply) ==
    /\ pc = "replanning"
    /\ llm_requests' = llm_requests + _replan_with_llm(reply).requests
    /\ llm_reply' = reply.kind
    /\ UNCHANGED << attempted_approaches, executions, failures, fallback_calls, llm_calls >>

\* lines 461-466: the replanned step is the dict json.loads made of the
\* reply (line 800)
AdoptReplanned(reply) ==
    /\ Replanned(reply)
    /\ _replan_with_llm(reply).kind = "step"
    /\ Adopt(NewDict(heap, _replan_with_llm(reply).step))

\* lines 467-475
AbortNoAlternative(reply) ==
    /\ Replanned(reply)
    /\ _replan_with_llm(reply).kind = "none"
    /\ Abort(NoAlternativeText)

Next ==
    \/ Reasoning
    \/ Synthesis
    \/ BeginToolCall
    \/ UnknownActionType
    \/ AllStepsExecuted
    \/ SynthesizeAnswer
    \/ \E outcome \in ToolOutcomes : ToolSucceeds(outcome)
    \/ \E outcome \in ToolOutcomes : AbortExhausted(outcome)
    \/ \E outcome \in ToolOutcomes : AbortBudget(outcome)
    \/ \E outcome \in ToolOutcomes : AbortUnrecoverable(outcome)
    \/ \E outcome \in ToolOutcomes : AdoptFallback(outcome)
    \/ \E outcome \in ToolOutcomes : FallbackRaises(outcome)
    \/ \E outcome \in ToolOutcomes : AskReplanner(outcome)
    \/ \E reply \in LLMReplies : AdoptReplanned(reply)
    \/ \E reply \in LLMReplies : AbortNoAlternative(reply)

Spec == Init /\ [][Next]_vars

\* the run proceeds whenever it can: the engine is one sequential call
FairSpec == Spec /\ WF_vars(Next)

(***************************************************************************)
(* The fail-fast executor: _execute_plan                                   *)
(***************************************************************************)
\* the exception _execute_plan leaves with: no trace is returned
StepFailed(step_num, error) ==
    [kind |-> "raised", trace |-> << >>,
     error |-> <<"S","t","e","p"," ">> \o IntText(step_num) \o <<" ","f","a","i","l","e","d",":"," ">> \o error]

\* an exception of the tool method itself is not caught by _execute_plan
Propagated(error) == [kind |-> "raised", trace |-> << >>, error |-> error]

\* lines 240-327: the for loop from position k on, with the records appended so
\* far; first[k] is what the tool does when the step at position k calls it
RECURSIVE ExecuteFrom(_, _, _, _)
ExecuteFrom(steps, first, k, results) ==
    IF k > Len(steps)
    THEN [kind |-> "returned", trace |-> results, error |-> NoText]
    ELSE LET s == steps[k] IN
         CASE s.action_type = "reasoning" ->
                  ExecuteFrom(steps, first, k + 1,
                              Append(results, ReasoningRecord(s)))
           [] s.action_type = "tool_call" ->
                  LET result == _execute_single_tool_step(s, first[k]) IN
                      IF result.ok
                      THEN ExecuteFrom(steps, first, k + 1,
                               Append(results,
                                      SuccessRecord(s, s.step, Description(s))))
                      ELSE IF result.invoked > 0 /\ first[k].kind = "exception"
                           THEN Propagated(result.error)
                           ELSE StepFailed(s.step, result.error)
           [] s.action_type = "synthesis" ->
                  ExecuteFrom(steps, first, k + 1,
                              Append(results, SynthesisRecord(s)))
           [] OTHER ->
                  StepFailed(s.step, <<"U","n","k","n","o","w","n"," ","a","c","t","i","o","n","_","t","y","p","e"," ","'">>
                                     \o ActionTypeText(s.action_type) \o <<"'">>)

\* variant: the loop starts at the second step of the plan
_execute_plan_from_second(steps, first) == ExecuteFrom(steps, first, 2, << >>)

\* lines 237-327
_execute_plan(steps, first) == ExecuteFrom(steps, first, 1, << >>)

(***************************************************************************)
(* ErrorClassifier called on its own                                       *)
(***************************************************************************)
MessageCores ==
    { Tagged(<<"i","n","v","a","l","i","d"," ","c","i","k"," ","f","o","r","m","a","t">>, TRUE, FALSE),
      Tagged(<<"I","n","v","a","l","i","d"," ","C","I","K"," ","F","o","r","m","a","t">>, TRUE, FALSE),
      Tagged(<<"a","u","t","h","e","n","t","i","c","a","t","i","o","n"," ","f","a","i","l","e","d">>, TRUE, FALSE),
      Tagged(<<"A","U","T","H","E","N","T","I","C","A","T","I","O","N"," ","F","A","I","L","E","D">>, TRUE, FALSE),
      Tagged(<<"n","e","t","w","o","r","k"," ","u","n","r","e","a","c","h","a","b","l","e">>, TRUE, FALSE),
      Tagged(<<"N","e","t","w","o","r","k"," ","U","n","r","e","a","c","h","a","b","l","e">>, TRUE, FALSE),
      Tagged(<<"i","n","v","a","l","i","d"," ","t","o","o","l">>, TRUE, FALSE),
      Tagged(<<"I","n","v","a","l","i","d"," ","t","o","o","l"," ","'","l","o","o","k","u","p","_","w","i","d","g","e","t","'">>, TRUE, FALSE),
      Tagged(<<"m","e","t","h","o","d"," ","n","o","t"," ","f","o","u","n","d">>, TRUE, FALSE),
      Tagged(<<"M","e","t","h","o","d"," ","N","o","t"," ","F","o","u","n","d">>, TRUE, FALSE),
      Tagged(<<"r","a","t","e"," ","l","i","m","i","t">>, FALSE, TRUE),
      Tagged(<<"R","a","t","e"," ","L","i","m","i","t"," ","e","x","c","e","e","d","e","d">>, FALSE, TRUE),
      Tagged(<<"4","2","9">>, FALSE, TRUE),
      Tagged(<<"t","o","o"," ","m","a","n","y"," ","r","e","q","u","e","s","t","s">>, FALSE, TRUE),
      Tagged(<<"T","o","o"," ","M","a","n","y"," ","R","e","q","u","e","s","t","s">>, FALSE, TRUE),
      Tagged(<<"q","u","o","t","a"," ","e","x","c","e","e","d","e","d">>, FALSE, TRUE),
      Tagged(<<"Q","U","O","T","A"," ","E","X","C","E","E","D","E","D">>, FALSE, TRUE),
      Tagged(<<"C","o","m","p","a","n","y"," ","n","o","t"," ","f","o","u","n","d">>, FALSE, FALSE),
      Tagged(<<"M","e","t","h","o","d"," ","'","g","e","t","_","c","o","m","p","a","n","y","_","i","n","f","o","'"," ","n","o","t"," ","f","o","u","n","d"," ","o","n"," ","t","o","o","l">>, FALSE, FALSE),
      Tagged(<<"i","n","v","a","l","i","d"," ","c","i","k">>, FALSE, FALSE),
      Tagged(<<"r","a","t","e","-","l","i","m","i","t">>, FALSE, FALSE),
      Tagged(<<"U","n","k","n","o","w","n"," ","e","r","r","o","r">>, FALSE, FALSE),
      Tagged(NoText, FALSE, FALSE) }

MessagePrefixes == { NoMessage, Tagged(<<"E","r","r","o","r",":"," ">>, FALSE, FALSE) }

MessageSuffixes ==
    { NoMessage,
      Tagged(<<" ","(","H","T","T","P"," ","4","2","9",")">>, FALSE, TRUE),
      Tagged(<<" ","-"," ","I","n","v","a","l","i","d"," ","T","o","o","l">>, TRUE, FALSE) }

Messages ==
    { Tagged(a.text \o b.text \o c.text,
             a.unrecoverable \/ b.unrecoverable \/ c.unrecoverable,
             a.rate_limit \/ b.rate_limit \/ c.rate_limit) :
          a \in MessagePrefixes, b \in MessageCores, c \in MessageSuffixes }

ClassifierInit ==
    /\ SingleRun
    /\ plan = <<>>
    /\ OwnPlan
    /\ Start
    /\ error_message \in Messages
    /\ error_type = "None"
    /\ instructions = "None"
    /\ Admitted

\* error_type = self._classify_error(error_message)
Classify ==
    /\ error_type = "None"
    /\ error_type' = _classify_error(error_message.text)
    /\ UNCHANGED << heap, plan_refs, plan, step_index, step_results, total_replannings, locals,
                    pc, history, error_message, threads, request,
                    instructions >>

ClassifierNext == Classify

ClassifierSpec == ClassifierInit /\ [][ClassifierNext]_vars

(***************************************************************************)
(* FallbackStrategyEngine called on its own                                *)
(***************************************************************************)
\* the latest year a probed step asks for
LatestYear == 2012

\* a part of a message with what it says: a not-found phrase, a filing term,
\* a company term (in any letter case)
Part(text, not_found, filing, company) ==
    [text |-> text, not_found |-> not_found, filing |-> filing, company |-> company]

MessageSubjects ==
    { Part(<<"F","i","l","i","n","g">>, FALSE, TRUE, FALSE),
      Part(<<"1","0","-","K">>, FALSE, TRUE, FALSE),
      Part(<<"F","o","r","m"," ","1","0","-","Q">>, FALSE, TRUE, FALSE),
      Part(<<"C","o","m","p","a","n","y">>, FALSE, FALSE, TRUE),
      Part(<<"C","I","K"," ","0","0","0","0","3","2","0","1","9","3">>, FALSE, FALSE, TRUE),
      Part(<<"C","o","m","p","a","n","y"," ","f","i","l","i","n","g">>, FALSE, TRUE, TRUE),
      Part(<<"M","e","t","r","i","c">>, FALSE, FALSE, FALSE) }

MessageFindings ==
    { Part(<<" ","n","o","t"," ","f","o","u","n","d">>, TRUE, FALSE, FALSE),
      Part(<<" ","N","o","t"," ","F","o","u","n","d"," ","f","o","r"," ","X","Y","Z">>, TRUE, FALSE, FALSE),
      Part(<<":"," ","n","o"," ","f","i","l","i","n","g","s"," ","f","o","u","n","d">>, TRUE, TRUE, FALSE),
      Part(<<":"," ","N","o"," ","1","0","-","K"," ","f","i","l","i","n","g","s"," ","f","o","u","n","d"," ","f","o","r"," ","X","Y","Z"," ","i","n"," ","2","0","2","3">>, FALSE, TRUE, FALSE),
      Part(<<" ","u","n","a","v","a","i","l","a","b","l","e">>, FALSE, FALSE, FALSE) }

DispatchMessages ==
    { Part(a.text \o b.text, a.not_found \/ b.not_found, a.filing \/ b.filing,
           a.company \/ b.company) :
          a \in MessageSubjects, b \in MessageFindings }

\* a step that carries an identifier, a form type and a year, on which the
\* three strategies answer three different steps
RichStep ==
    [step |-> 6, action_type |-> "tool_call", description |-> <<"g","e","t"," ","f","i","l","i","n","g"," ","d","a","t","a">>,
     tool |-> "get_company_info",
     tool_parameters |-> [EmptyParams EXCEPT !.identifier = <<"A","c","m","e"," ","C","o","r","p","o","r","a","t","i","o","n">>,
                                             !.form_type = "10-Q",
                                             !.year = LatestYear]]

\* a step whose company is named by cik_or_ticker only
TickerStep ==
    [step |-> 3, action_type |-> "tool_call", description |-> <<"g","e","t"," ","c","o","m","p","a","n","y">>,
     tool |-> "get_company_info",
     tool_parameters |-> [EmptyParams EXCEPT !.cik_or_ticker = <<"A","c","m","e"," ","L","L","C">>]]

ProbeSteps ==
    { [FilingsStep EXCEPT !.tool_parameters.year = y,
                          !.tool_parameters.form_type = f] :
          y \in {NoYear} \cup (earliest_year..LatestYear),
          f \in {"10-K", "10-Q", "8-K", NoForm} }
    \cup { CompanyStep, TickerStep, BareStep, RichStep }

\* attempts of the step made before the probed failure
PriorHistories ==
    { <<>>,
      << [tool |-> "search_companies",
          parameters |-> [EmptyParams EXCEPT !.query = <<"A","c","m","e">>, !.limit = search_limit],
          error |-> <<"C","o","m","p","a","n","y"," ","n","o","t"," ","f","o","u","n","d">>] >>,
      << [tool |-> "get_company_facts",
          parameters |-> [EmptyParams EXCEPT !.identifier = <<"A","c","m","e">>],
          error |-> <<"M","e","t","r","i","c"," ","n","o","t"," ","f","o","u","n","d">>] >>,
      << [tool |-> "get_company_facts", parameters |-> NoParams,
          error |-> <<"R","a","t","e"," ","l","i","m","i","t"," ","e","x","c","e","e","d","e","d">>] >> }

\* the record the engine appends for a failed execution of a step
AttemptOf(s, error_msg) ==
    [tool |-> s.tool, parameters |-> s.tool_parameters, error |-> error_msg]

FallbackInit ==
    /\ SingleRun
    /\ plan = <<>>
    /\ plan_refs = <<>>
    /\ step_index = 1
    /\ step_results = <<>>
    /\ total_replannings = 0
    /\ replanning_attempts = 0
    /\ current_step \in ProbeSteps
    /\ heap = NewDict(NoObjects, current_step)
    /\ current_ref = 1
    /\ \E prior \in PriorHistories, m \in DispatchMessages :
           attempted_approaches = Append(prior, AttemptOf(current_step, m.text))
    /\ pc = "while"
    /\ executions = <<>>
    /\ failures = <<>>
    /\ fallback_calls = 0
    /\ llm_calls = 0
    /\ llm_requests = 0
    /\ llm_reply = "None"
    /\ adoptions = <<>>
    /\ exhausted_seen = FALSE
    /\ error_message = NoMessage
    /\ error_type = "None"
    /\ instructions = "None"
    /\ Admitted

\* the message of the last failed execution
LastError == attempted_approaches[Len(attempted_approaches)].error

\* fallback_step = self._try_predefined_fallback(current_step, error_msg,
\*                                               attempted_approaches)
Offered == _try_predefined_fallback(current_step, LastError, attempted_approaches)

FallbackFrame ==
    UNCHANGED << plan_refs, plan, classified, threads, request, instructions, step_index, step_results, total_replannings,
                 replanning_attempts, executions, failures, llm, adoptions,
                 exhausted_seen >>

\* the fallback engine answers a step; the step is executed and fails with
\* the same message
Offer ==
    /\ pc = "while"
    /\ Offered.kind = "step"
    /\ heap' = FallbackObjects(heap, current_ref, Offered.step)
    /\ current_ref' = Len(heap'.steps)
    /\ current_step' = Load(heap', current_ref')
    /\ attempted_approaches' =
           Append(attempted_approaches, AttemptOf(Offered.step, LastError))
    /\ fallback_calls' = fallback_calls + 1
    /\ pc' = "while"
    /\ FallbackFrame

\* the fallback engine answers None
Decline ==
    /\ pc = "while"
    /\ Offered.kind = "none"
    /\ fallback_calls' = fallback_calls + 1
    /\ pc' = "returned"
    /\ UNCHANGED << heap, current_step, current_ref, attempted_approaches >>
    /\ FallbackFrame

\* the fallback engine raises
OfferRaises ==
    /\ pc = "while"
    /\ Offered.kind = "raise"
    /\ fallback_calls' = fallback_calls + 1
    /\ pc' = "raised"
    /\ UNCHANGED << heap, current_step, current_ref, attempted_approaches >>
    /\ FallbackFrame

FallbackNext == Offer \/ Decline \/ OfferRaises

FallbackSpec == FallbackInit /\ [][FallbackNext]_vars

(***************************************************************************)
(* Several runs on the one SecAgent of app.py                              *)
(***************************************************************************)
\* threads of asyncio.to_thread that are inside agent.run at the same time
NumThreads == 2
Threads == 1..NumThreads

\* the plans of the concurrent runs
ConcurrentPlans ==
    { << CompanyStep, SynthesisStep >>, << ReasoningStep, FilingsStep >> }

\* tool_method(**tool_params), line 513, on a method of the registered
\* classes: the keys of the call fit the parameters of the method
Binds(s) == Unexpected(s) = << >> /\ Missing(s) = << >>

\* the call raises TypeError
BadArguments == [kind |-> "bad_arguments", text |-> NoText]

\* what the tools do in the concurrent runs
ConcurrentOutcomes ==
    { [kind |-> "ok", text |-> NoText],
      [kind |-> "reported", text |-> <<"C","o","m","p","a","n","y"," ","n","o","t"," ","f","o","u","n","d">>],
      [kind |-> "reported", text |-> <<"I","n","v","a","l","i","d"," ","C","I","K"," ","f","o","r","m","a","t">>],
      BadArguments }

\* what the call of current_step meets when the method would do outcome: a
\* call that does not fit the signature raises TypeError before the method
\* is entered, as the call of get_recent_filings with a key 'year' does
\* (filings.py lines 27-33)
Called(outcome) == IF Binds(current_step) THEN outcome ELSE BadArguments

\* what the LLM does in the concurrent runs
ConcurrentReplies ==
    { r \in LLMReplies : r.kind = "empty" \/ (r.kind = "step" /\ r.step.step = 7) }

RECURSIVE Total(_)
\* the sum of the numbers of a sequence
Total(counts) ==
    IF counts = <<>> THEN 0 ELSE Head(counts) + Total(Tail(counts))

\* the local variables of the executing call of _execute_plan_with_replanning
\* (lines 333-334, 336-343, 373-375) and the history kept of it
Frame ==
    [plan_refs |-> plan_refs, current_ref |-> current_ref, plan |-> plan, step_index |-> step_index, step_results |-> step_results,
     total_replannings |-> total_replannings,
     replanning_attempts |-> replanning_attempts,
     attempted_approaches |-> attempted_approaches,
     current_step |-> current_step, pc |-> pc, executions |-> executions,
     failures |-> failures, fallback_calls |-> fallback_calls,
     llm_calls |-> llm_calls, llm_requests |-> llm_requests,
     llm_reply |-> llm_reply, adoptions |-> adoptions,
     exhausted_seen |-> exhausted_seen]

\* the locals of a call that has just been entered with plan p, whose dicts
\* are at the positions refs
StartFrame(p, refs) ==
    [plan_refs |-> refs, current_ref |-> None, plan |-> p, step_index |-> 1, step_results |-> <<>>,
     total_replannings |-> 0, replanning_attempts |-> 0,
     attempted_approaches |-> <<>>, current_step |-> NullStep, pc |-> "for",
     executions |-> [k \in 1..Len(p) |-> 0],
     failures |-> [k \in 1..Len(p) |-> 0], fallback_calls |-> 0,
     llm_calls |-> 0, llm_requests |-> 0, llm_reply |-> "None",
     adoptions |-> [k \in 1..Len(p) |-> 0], exhausted_seen |-> FALSE]

\* app.py line 26 in every thread: each thread has entered the engine
RECURSIVE ParsedAll(_, _)
\* the dicts of the plans of the threads up to thread t: each run parses a
\* plan of its own (line 190)
ParsedAll(plans, t) ==
    IF t = 0 THEN NoObjects ELSE Parsed(ParsedAll(plans, t - 1), plans[t])

ConcurrentInit ==
    /\ running = 1
    /\ \E plans \in [Threads -> ConcurrentPlans] :
           /\ plan = plans[1]
           /\ plan_refs = Made(NoObjects, plan)
           /\ heap = ParsedAll(plans, NumThreads)
           /\ suspended =
                  [t \in Threads \ {1} |->
                       StartFrame(plans[t], Made(ParsedAll(plans, t - 1), plans[t]))]
    /\ Start
    /\ error_message = NoMessage
    /\ error_type = "None"
    /\ instructions = "None"
    /\ Admitted

\* variant: total_replannings is kept on the agent the threads share
Resumed_budget_on_agent(t) ==
    [suspended[t] EXCEPT !.total_replannings = total_replannings]

\* what thread t finds when it runs again: step_results, total_replannings
\* (lines 333-334), replanning_attempts, attempted_approaches, current_step
\* (lines 373-375) are local names of its own call, and plan is its
\* argument; the call writes no attribute of self. The dicts those names
\* refer to are in the memory all threads share, which a switch leaves as
\* it is
Resumed(t) == suspended[t]

\* the interpreter passes control from the executing thread to thread t
Switch(t) ==
    /\ t \in DOMAIN suspended
    /\ running' = t
    /\ suspended' =
           [u \in (DOMAIN suspended \ {t}) \cup {running} |->
                IF u = running THEN Frame ELSE suspended[u]]
    /\ heap' = heap
    /\ plan_refs' = Resumed(t).plan_refs
    /\ current_ref' = Resumed(t).current_ref
    /\ plan' = Resumed(t).plan
    /\ step_index' = Resumed(t).step_index
    /\ step_results' = Resumed(t).step_results
    /\ total_replannings' = Resumed(t).total_replannings
    /\ replanning_attempts' = Resumed(t).replanning_attempts
    /\ attempted_approaches' = Resumed(t).attempted_approaches
    /\ current_step' = Resumed(t).current_step
    /\ pc' = Resumed(t).pc
    /\ executions' = Resumed(t).executions
    /\ failures' = Resumed(t).failures
    /\ fallback_calls' = Resumed(t).fallback_calls
    /\ llm_calls' = Resumed(t).llm_calls
    /\ llm_requests' = Resumed(t).llm_requests
    /\ llm_reply' = Resumed(t).llm_reply
    /\ adoptions' = Resumed(t).adoptions
    /\ exhausted_seen' = Resumed(t).exhausted_seen
    /\ UNCHANGED << classified, request, instructions >>

\* the steps of the executing thread's call, and the switches between threads
ConcurrentNext ==
    \/ Reasoning
    \/ Synthesis
    \/ BeginToolCall
    \/ AllStepsExecuted
    \/ \E outcome \in ConcurrentOutcomes : ToolSucceeds(Called(outcome))
    \/ \E outcome \in ConcurrentOutcomes : AbortExhausted(Called(outcome))
    \/ \E outcome \in ConcurrentOutcomes : AbortUnrecoverable(Called(outcome))
    \/ \E outcome \in ConcurrentOutcomes : AdoptFallback(Called(outcome))
    \/ \E outcome \in ConcurrentOutcomes : AskReplanner(Called(outcome))
    \/ \E reply \in ConcurrentReplies : AdoptReplanned(reply)
    \/ \E reply \in ConcurrentReplies : AbortNoAlternative(reply)
    \/ \E t \in Threads : Switch(t)

ConcurrentSpec == ConcurrentInit /\ [][ConcurrentNext]_vars

(***************************************************************************)
(* SecAgent.run from the query to the returned value                       *)
(***************************************************************************)
\* what validate_and_enrich answers (query_validator.py lines 191-224): the
\* scope and entity rejections carry no enriched_query, the others do
ValidationResults ==
    { Validation("rejected", "out_of_scope", FALSE),
      Validation("entity_detection_failed", "no_entities", FALSE),
      Validation("clarification_needed", "which_company", TRUE),
      Validation("rejected", "not_feasible", TRUE),
      Valid }

NoValidation == Validation("None", "None", FALSE)

\* the plans _create_plan comes back with when it has one
RunPlans ==
    { << CompanyStep, SynthesisStep >>, << BareStep, SynthesisStep >>,
      << ReasoningStep, SynthesisStep >> }

\* the value of a return statement of run
Returned(kind, content) == [kind |-> kind, content |-> content]

\* run has been called and is at line 134
RunInit ==
    /\ SingleRun
    /\ plan = << >>
    /\ OwnPlan
    /\ current_ref = None
    /\ step_index = 1
    /\ step_results = << >>
    /\ total_replannings = 0
    /\ replanning_attempts = 0
    /\ attempted_approaches = << >>
    /\ current_step = NullStep
    /\ pc = "validate"
    /\ executions = << >>
    /\ failures = << >>
    /\ adoptions = << >>
    /\ fallback_calls = 0
    /\ llm_calls = 0
    /\ llm_requests = 0
    /\ llm_reply = "None"
    /\ exhausted_seen = FALSE
    /\ error_message = NoMessage
    /\ error_type = "None"
    /\ instructions = "None"
    /\ validation_result = NoValidation
    /\ response = NoResponse

\* what the run stages before the engine leave alone
BeforeEngine ==
    UNCHANGED << classified, threads, instructions, step_index, step_results,
                 total_replannings, locals, fallback_calls, llm, exhausted_seen >>

\* lines 134-140
Validate(answer) ==
    /\ pc = "validate"
    /\ validation_result' = answer
    /\ IF answer.enriched_query
       THEN /\ pc' = "planning"
            /\ UNCHANGED response
       ELSE /\ pc' = "done"
            /\ response' = Returned("str", answer.message)
    /\ UNCHANGED << heap, plan_refs, plan, executions, failures, adoptions >>
    /\ BeforeEngine

\* line 134: validate_and_enrich raises, and run with it, since the call is
\* outside the try of line 142; the stages of the validator catch
\* json.JSONDecodeError and TypeError only (query_validator.py lines 81-85,
\* 143-144, 181-182), so whatever else llm_call or the schema validation
\* raises leaves run, which returns nothing
ValidateRaises ==
    /\ pc = "validate"
    /\ pc' = "propagated"
    /\ UNCHANGED << heap, plan_refs, plan, request, executions, failures, adoptions >>
    /\ BeforeEngine

\* lines 147-149: _create_plan comes back with None or with an empty list
NoPlanCreated ==
    /\ pc = "planning"
    /\ response' = Returned("dict", "could_not_create_plan")
    /\ pc' = "done"
    /\ UNCHANGED << heap, plan_refs, plan, validation_result, executions, failures, adoptions >>
    /\ BeforeEngine

\* lines 147-155: a plan, and the call of the engine with it
CreatePlan(p) ==
    /\ pc = "planning"
    /\ heap' = Parsed(heap, p)
    /\ plan_refs' = Made(heap, p)
    /\ plan' = Loaded(heap', plan_refs')
    /\ executions' = [k \in 1..Len(p) |-> 0]
    /\ failures' = [k \in 1..Len(p) |-> 0]
    /\ adoptions' = [k \in 1..Len(p) |-> 0]
    /\ pc' = "for"
    /\ UNCHANGED request
    /\ BeforeEngine

\* line 160
Respond ==
    /\ pc = "returned"
    /\ instructions # "None"
    /\ response' = Returned("dict", "final_answer")
    /\ pc' = "done"
    /\ UNCHANGED << heap, plan_refs, plan, validation_result, executions, failures, adoptions >>
    /\ BeforeEngine

\* _create_plan raises before its line 189 has bound json: llm.call raised,
\* or its answer has no readable 'content'; json being a local of
\* _create_plan, matching 'except json.JSONDecodeError' (line 199) raises
\* UnboundLocalError, which leaves _create_plan
CreatePlanRaised == pc = "planning"

\* the engine or the synthesis raised inside the try of run
EngineRaised == pc = "raised"

\* lines 162-164
Catch ==
    /\ CreatePlanRaised \/ EngineRaised
    /\ response' = Returned("dict", "sorry_error")
    /\ pc' = "done"
    /\ UNCHANGED << heap, plan_refs, plan, validation_result, executions, failures, adoptions >>
    /\ BeforeEngine

RunNext ==
    \/ \E answer \in ValidationResults : Validate(answer)
    \/ ValidateRaises
    \/ NoPlanCreated
    \/ \E p \in RunPlans : CreatePlan(p)
    \/ Reasoning
    \/ Synthesis
    \/ BeginToolCall
    \/ AllStepsExecuted
    \/ SynthesizeAnswer
    \/ \E outcome \in ToolOutcomes : ToolSucceeds(outcome)
    \/ \E outcome \in ToolOutcomes : AbortExhausted(outcome)
    \/ \E outcome \in ToolOutcomes : AbortUnrecoverable(outcome)
    \/ \E outcome \in ToolOutcomes : AdoptFallback(outcome)
    \/ \E outcome \in ToolOutcomes : FallbackRaises(outcome)
    \/ \E outcome \in ToolOutcomes : AskReplanner(outcome)
    \/ \E reply \in ConcurrentReplies : AdoptReplanned(reply)
    \/ \E reply \in ConcurrentReplies : AbortNoAlternative(reply)
    \/ Respond
    \/ Catch

RunSpec == RunInit /\ [][RunNext]_vars

TypeOK ==
    /\ pc \in {"for", "while", "replanning", "returned", "raised"}
    /\ total_replannings \in 0..max_total_replannings

(***************************************************************************)
(* Properties                                                              *)
(***************************************************************************)
Positions(trace, status) == { i \in 1..Len(trace) : trace[i].status = status }
HasFailed(trace) == Positions(trace, "failed") # {}
Descriptions(steps) == [k \in 1..Len(steps) |-> steps[k].description]
Running == pc \in {"for", "while", "replanning"}

\* C1: a trace holds at most one failed record; a failed record is the last
\* record or is followed only by one skipped record; a skipped record is the
\* final record and directly follows a failed record.
C1_TraceShape ==
    LET n == Len(step_results) IN
    /\ Cardinality(Positions(step_results, "failed")) <= 1
    /\ \A i \in Positions(step_results, "failed") :
           \/ i = n
           \/ i = n - 1 /\ step_results[n].status = "skipped"
    /\ \A i \in Positions(step_results, "skipped") :
           /\ i = n
           /\ i > 1
           /\ step_results[i - 1].status = "failed"

C1_Witness ==
    /\ pc = "returned"
    /\ Len(step_results) >= 3
    /\ step_results[Len(step_results)].status = "skipped"
    /\ step_results[Len(step_results) - 1].status = "failed"

\* C2: once a failed record is in the trace nothing more is invoked (no tool
\* execution, no fallback, no LLM replanning); the trace then ends with one
\* skip note listing the descriptions of the plan steps after the failed one,
\* in plan order, exactly when such steps exist.
C2_FailedEndsRun ==
    /\ [](HasFailed(step_results) =>
            LET f == CHOOSE i \in Positions(step_results, "failed") : TRUE
                n == Len(step_results)
            IN  /\ f = step_index
                /\ IF step_index < Len(plan)
                   THEN /\ n = f + 1
                        /\ step_results[n].status = "skipped"
                        /\ step_results[n].skipped_steps =
                               Descriptions(SubSeq(plan, step_index + 1, Len(plan)))
                   ELSE /\ n = f
                        /\ Positions(step_results, "skipped") = {})
    /\ [][HasFailed(step_results) =>
            UNCHANGED << executions, fallback_calls, llm_calls, step_results >>]_vars

C2_Witness ==
    /\ HasFailed(step_results)
    /\ step_results[Len(step_results)].status = "skipped"
    /\ Len(step_results[Len(step_results)].skipped_steps) >= 2
    /\ executions[step_index] >= 2

\* C3: no failure of a tool execution or of the LLM replanner leaves
\* _execute_plan_with_replanning as an exception: the run never ends raised.
C3_NoException == pc # "raised"

\* C4: a run that has ended has returned, either with one record per plan
\* step and no failed record, or with a trace holding a failed record.
C4_TwoEndings ==
    ~Running =>
        /\ pc = "returned"
        /\ \/ HasFailed(step_results)
           \/ /\ Len(step_results) = Len(plan)
              /\ \A k \in 1..Len(plan) : step_results[k].step = plan[k].step

\* every run ends: the for loop and the retry loop are bounded
Termination == <>(~Running)

\* C5: total_replannings never decreases and never exceeds
\* max_total_replannings.
C5_BudgetMonotone ==
    /\ [](total_replannings <= max_total_replannings)
    /\ [][total_replannings' >= total_replannings]_vars

C5_Witness == total_replannings = max_total_replannings

\* a tool execution fails in the step
ExecutionFails == failures' # failures

\* the call of the LLM replanner made for the last failed execution comes
\* back in the step
ReplyHandled == pc = "replanning" /\ pc' # "replanning"

\* C6: a tool execution that fails while total_replannings equals
\* max_total_replannings ends the run in that step: no fallback and no LLM
\* replanner is invoked, a failed record for the step is emitted, and no
\* later plan step is ever executed.
C6_AbortOnSpentBudget ==
    /\ [][(ExecutionFails /\ total_replannings = max_total_replannings) =>
            /\ pc' = "returned"
            /\ fallback_calls' = fallback_calls
            /\ llm_calls' = llm_calls
            /\ Positions(step_results', "failed") = {Len(step_results) + 1}
            /\ step_results'[Len(step_results) + 1].step = plan[step_index].step
            /\ Len(step_results) = step_index - 1]_vars
    /\ [](HasFailed(step_results) =>
            \A k \in (step_index + 1)..Len(plan) : executions[k] = 0)

C6_Witness ==
    /\ pc = "returned"
    /\ total_replannings = max_total_replannings
    /\ replanning_attempts < max_replanning_attempts
    /\ HasFailed(step_results)
    /\ step_index < Len(plan)
    /\ step_results[step_index].error = ExceededText

\* C7 as stated: once a budget counter is used up no later step is recovered
\* and the run ends with a failed record.
C7_Original ==
    /\ \A j, k \in 1..Len(plan) :
           (j < k /\ adoptions[j] >= max_replanning_attempts) => adoptions[k] = 0
    /\ (pc = "returned" /\ exhausted_seen) => HasFailed(step_results)

\* a budget counter is used up: the per-step counter of the step in its
\* retry loop, or the counter of the run
BudgetSpent ==
    \/ pc = "while" /\ replanning_attempts >= max_replanning_attempts
    \/ total_replannings >= max_total_replannings

\* C7 (amended): while a budget counter is used up (the per-step counter in
\* the retry loop of its step, total_replannings in the whole run) no fallback
\* and no LLM replanning is attempted and no replacement step is adopted, and
\* a tool execution that fails then ends the run with a failed record.
C7_SpentBudgetStopsRecovery ==
    [][BudgetSpent =>
          /\ fallback_calls' = fallback_calls
          /\ llm_calls' = llm_calls
          /\ adoptions' = adoptions
          /\ ExecutionFails => (pc' = "returned" /\ HasFailed(step_results'))]_vars

C7_Witness ==
    /\ pc = "returned"
    /\ HasFailed(step_results)
    /\ replanning_attempts = max_replanning_attempts
    /\ total_replannings < max_total_replannings
    /\ \E j \in 1..(step_index - 1) : adoptions[j] = max_replanning_attempts

\* the trace ends with the failed record of plan position k and, when steps
\* follow, the skip note listing their descriptions
AbortedAt(k) ==
    /\ pc = "returned"
    /\ step_index = k
    /\ Len(step_results) >= k
    /\ step_results[k].status = "failed"
    /\ step_results[k].step = plan[k].step
    /\ IF k < Len(plan)
       THEN /\ Len(step_results) = k + 1
            /\ step_results[k + 1].status = "skipped"
            /\ step_results[k + 1].skipped_steps =
                   Descriptions(SubSeq(plan, k + 1, Len(plan)))
       ELSE Len(step_results) = k

\* C8 as stated: the second failed execution of a step aborts the run.
C8_Original ==
    \A k \in 1..Len(plan) : failures[k] >= 2 => AbortedAt(k)

\* C8 (amended): with max_replanning_attempts = 2 and max_total_replannings
\* = 5 a step survives two failed executions when both are recovered, which
\* uses up its per-step counter; its third failed execution aborts the run
\* with a failed record for the step and a skip note listing the descriptions
\* of all following steps, whatever is left of the total budget.
C8_ThirdFailureAborts ==
    \A k \in 1..Len(plan) :
        /\ failures[k] <= max_replanning_attempts + 1
        /\ (failures[k] = max_replanning_attempts /\ pc = "while" /\ step_index = k)
               => replanning_attempts = max_replanning_attempts
        /\ failures[k] = max_replanning_attempts + 1
               => (AbortedAt(k) /\ adoptions[k] = max_replanning_attempts)

C8_Witness ==
    \E k \in 1..(Len(plan) - 2) :
        /\ failures[k] = 3
        /\ AbortedAt(k)
        /\ total_replannings = 2
        /\ Len(step_results[k + 1].skipped_steps) >= 2

\* C9: every tool_call step enters its retry loop with the per-step counter
\* at 0, is executed at most max_replanning_attempts + 1 times and adopts at
\* most max_replanning_attempts replacement steps.
C9_PerStepBound ==
    /\ \A k \in 1..Len(plan) :
           /\ executions[k] <= max_replanning_attempts + 1
           /\ adoptions[k] <= max_replanning_attempts
    /\ (pc = "while" /\ executions[step_index] = 0) => replanning_attempts = 0
    /\ pc = "while" => replanning_attempts = adoptions[step_index]

C9_Witness ==
    \E j, k \in 1..Len(plan) :
        /\ j < k
        /\ adoptions[j] = max_replanning_attempts
        /\ executions[k] = max_replanning_attempts + 1
        /\ pc = "for"
        /\ step_index > k

\* the message of the failed execution of this step
FailureText == attempted_approaches'[Len(attempted_approaches')].error

\* C10: a first execution of a step that fails with an UNRECOVERABLE message
\* ("Invalid CIK format" is one) ends the run after that one execution:
\* no fallback, no LLM replanning, both counters unchanged, a failed record,
\* whatever budget is left.
C10_UnrecoverableAborts ==
    /\ _classify_error(<<"I","n","v","a","l","i","d"," ","C","I","K"," ","f","o","r","m","a","t">>) = "UNRECOVERABLE"
    /\ [][(/\ ExecutionFails
           /\ executions[step_index] = 0
           /\ \/ FailureText = <<"I","n","v","a","l","i","d"," ","C","I","K"," ","f","o","r","m","a","t">>
              \/ _classify_error(FailureText) = "UNRECOVERABLE") =>
              /\ pc' = "returned"
              /\ HasFailed(step_results')
              /\ executions'[step_index] = 1
              /\ fallback_calls' = fallback_calls
              /\ llm_calls' = llm_calls
              /\ total_replannings' = total_replannings
              /\ replanning_attempts' = replanning_attempts]_vars

C10_Witness ==
    /\ pc = "returned"
    /\ HasFailed(step_results)
    /\ executions[step_index] = 1
    /\ step_results[step_index].error = <<"I","n","v","a","l","i","d"," ","C","I","K"," ","f","o","r","m","a","t">>
    /\ total_replannings \in 1..(max_total_replannings - 1)

\* every step of the plan has an action_type the engine knows
RecognisedPlan ==
    \A k \in 1..Len(plan) :
        plan[k].action_type \in {"reasoning", "tool_call", "synthesis"}

\* what the fallback engine answers for the failed execution of this step
FallbackAnswer ==
    _try_predefined_fallback(current_step, FailureText, attempted_approaches')

\* the failed execution of this step is eligible for recovery
Eligible ==
    /\ ExecutionFails
    /\ replanning_attempts < max_replanning_attempts
    /\ total_replannings < max_total_replannings
    /\ _classify_error(FailureText) # "UNRECOVERABLE"

\* a failed record enters the trace in the step
RunAborts == HasFailed(step_results') /\ ~HasFailed(step_results)

\* C11 as stated: in a plan of recognised steps a failed record enters the
\* trace only on a failed execution that finds a budget counter used up or
\* whose message is classified UNRECOVERABLE.
C11_Original ==
    [][(RecognisedPlan /\ RunAborts) =>
          /\ ExecutionFails \/ ReplyHandled
          /\ \/ replanning_attempts >= max_replanning_attempts
             \/ total_replannings >= max_total_replannings
             \/ _classify_error(FailureText) = "UNRECOVERABLE"]_vars

\* C11 (amended): in a plan of recognised steps a failed record enters the
\* trace only on a failed execution for which (a) the per-step counter or the
\* total counter is used up, or (b) the message is classified UNRECOVERABLE,
\* or (c) the fallback engine and then the LLM replanner were both asked and
\* no step was adopted, the record then carrying the no-alternative error.
\* Every other failed execution either adopts a replacement step and stays in
\* the retry loop with the trace unchanged, or leaves the engine raised.
C11_AbortCauses ==
    /\ [][(RecognisedPlan /\ RunAborts) =>
             /\ pc' = "returned"
             /\ \/ /\ ExecutionFails
                   /\ \/ replanning_attempts >= max_replanning_attempts
                      \/ total_replannings >= max_total_replannings
                      \/ _classify_error(FailureText) = "UNRECOVERABLE"
                \/ /\ ReplyHandled
                   /\ adoptions' = adoptions
                   /\ step_results'[step_index].error = NoAlternativeText]_vars
    /\ [][pc' = "replanning" =>
             /\ Eligible
             /\ fallback_calls' = fallback_calls + 1
             /\ FallbackAnswer.kind = "none"
             /\ llm_calls' = llm_calls + 1]_vars
    /\ [][(ExecutionFails /\ ~RunAborts) =>
             /\ step_results' = step_results
             /\ \/ pc' = "raised"
                \/ pc' = "replanning" /\ adoptions' = adoptions
                \/ /\ pc' = "while"
                   /\ adoptions'[step_index] = adoptions[step_index] + 1]_vars
    /\ [][(ReplyHandled /\ ~RunAborts) =>
             /\ step_results' = step_results
             /\ pc' = "while"
             /\ adoptions'[step_index] = adoptions[step_index] + 1]_vars

C11_Witness ==
    /\ RecognisedPlan
    /\ pc = "returned"
    /\ HasFailed(step_results)
    /\ step_results[step_index].error = NoAlternativeText
    /\ replanning_attempts < max_replanning_attempts
    /\ total_replannings < max_total_replannings
    /\ total_replannings > 0
    /\ _classify_error(attempted_approaches[Len(attempted_approaches)].error) = "RATE_LIMIT"

\* C12: every failed execution eligible for recovery consults the fallback
\* engine once; the LLM replanner is invoked only in such a step and only when
\* the fallback engine answered no step; when the fallback engine answers a
\* step, that step is adopted and the LLM replanner is not invoked.
C12_FallbackBeforeLLM ==
    /\ [][Eligible => fallback_calls' = fallback_calls + 1]_vars
    /\ [][fallback_calls' # fallback_calls => Eligible]_vars
    /\ [][llm_calls' # llm_calls =>
             /\ Eligible
             /\ llm_calls' = llm_calls + 1
             /\ FallbackAnswer.kind = "none"]_vars
    /\ [][(Eligible /\ FallbackAnswer.kind = "step") =>
             /\ llm_calls' = llm_calls
             /\ current_step' = FallbackAnswer.step
             /\ pc' = "while"]_vars
    /\ [][(Eligible /\ FallbackAnswer.kind = "none") =>
             llm_calls' = llm_calls + 1]_vars

C12_Witness ==
    /\ pc = "while"
    /\ adoptions[step_index] = 2
    /\ llm_calls = 1
    /\ fallback_calls = 2
    /\ current_step.tool = "get_recent_filings"
    /\ current_step.tool_parameters.form_type = "10-Q"

\* C13: a failed execution eligible for recovery for which the fallback
\* engine answers no step and the LLM replanner, asked next, yields no step
\* ends the run through the partial-result path: a failed record for the step
\* whose error says that no alternative approach was found, the skip note when
\* steps follow, and both counters left as they were.
C13_NoAlternativeAborts ==
    /\ [][(Eligible /\ FallbackAnswer.kind = "none") =>
             /\ pc' = "replanning"
             /\ llm_calls' = llm_calls + 1
             /\ UNCHANGED << step_results, replanning_attempts,
                             total_replannings, adoptions >>]_vars
    /\ [][(ReplyHandled /\ adoptions' = adoptions) =>
          /\ pc' = "returned"
          /\ step_results' =
                 _handle_partial_success(step_results, current_step, step.step,
                                         remaining_steps, step_results'[step_index].error)
          /\ Contains(Lower(step_results'[step_index].error), <<"a","l","t","e","r","n","a","t","i","v","e">>)
          /\ replanning_attempts' = replanning_attempts
          /\ total_replannings' = total_replannings
          /\ UNCHANGED << executions, failures, fallback_calls, llm_calls >>]_vars

C13_Witness ==
    /\ pc = "returned"
    /\ step_index < Len(plan)
    /\ Len(step_results) = step_index + 1
    /\ step_results[step_index].status = "failed"
    /\ step_results[step_index].error = <<"C","o","u","l","d"," ","n","o","t"," ","f","i","n","d"," ","a","l","t","e","r","n","a","t","i","v","e"," ","a","p","p","r","o","a","c","h">>
    /\ step_results[step_index + 1].status = "skipped"
    /\ replanning_attempts = 1
    /\ total_replannings = 3
    /\ llm_calls >= 1

\* the replies of llm.call from which no step can be taken
FailedReplies == {"raises", "empty", "not_json", "no_tool", "no_tool_parameters"}

\* C14: every invocation of _replan_with_llm makes exactly one call of
\* llm.call; when that call raises, returns empty content, returns text that
\* is not JSON or returns an object without 'tool' or 'tool_parameters', the
\* replanner returns no step, nothing is raised, and the engine ends the run
\* as for "no alternative found", with both counters left as they were.
C14_ReplannerNeverRaises ==
    /\ \A reply \in LLMReplies :
           /\ _replan_with_llm(reply).requests = 1
           /\ reply.kind \in FailedReplies => _replan_with_llm(reply).kind = "none"
    /\ [](llm_requests = llm_calls - (IF pc = "replanning" THEN 1 ELSE 0))
    /\ [][llm_calls' # llm_calls =>
             /\ llm_calls' = llm_calls + 1
             /\ pc' = "replanning"]_vars
    /\ [][ReplyHandled =>
             /\ llm_requests' = llm_requests + 1
             /\ llm_calls' = llm_calls]_vars
    /\ [][(ReplyHandled /\ llm_reply' \in FailedReplies) =>
             /\ pc' = "returned"
             /\ step_results' =
                    _handle_partial_success(step_results, current_step, step.step,
                                            remaining_steps, NoAlternativeText)
             /\ replanning_attempts' = replanning_attempts
             /\ total_replannings' = total_replannings]_vars
    /\ [](llm_reply \in FailedReplies =>
             /\ pc = "returned"
             /\ step_results[step_index].error = NoAlternativeText)

C14_Witness ==
    /\ llm_reply = "no_tool_parameters"
    /\ llm_requests = 2
    /\ pc = "returned"
    /\ step_results[step_index].status = "failed"

\* the class the priority order of the two pattern lists gives a message
Expected(message) ==
    IF message.unrecoverable THEN "UNRECOVERABLE"
    ELSE IF message.rate_limit THEN "RATE_LIMIT"
    ELSE "RECOVERABLE"

\* C15: the class returned for a message is fixed by the message alone:
\* UNRECOVERABLE exactly when it holds a phrase of the unrecoverable list in
\* any letter case, otherwise RATE_LIMIT exactly when it holds a phrase of
\* the rate-limit list, otherwise RECOVERABLE; a message holding phrases of
\* both lists is UNRECOVERABLE.
C15_ClassifierPriority ==
    /\ error_type # "None" => error_type = Expected(error_message)
    /\ (error_type # "None" /\ error_message.unrecoverable /\ error_message.rate_limit)
           => error_type = "UNRECOVERABLE"
    /\ error_type \in {"None", "UNRECOVERABLE", "RATE_LIMIT", "RECOVERABLE"}

C15_Witness ==
    /\ error_type = "UNRECOVERABLE"
    /\ error_message.unrecoverable
    /\ error_message.rate_limit
    /\ error_message.text = <<"E","r","r","o","r",":"," ","T","o","o"," ","M","a","n","y"," ","R","e","q","u","e","s","t","s"," ","-"," ","I","n","v","a","l","i","d"," ","T","o","o","l">>

\* the failed execution of this step gets as far as the classification
Classified ==
    /\ ExecutionFails
    /\ replanning_attempts < max_replanning_attempts
    /\ total_replannings < max_total_replannings

SaysRateLimit(text) == Contains(Lower(text), <<"r","a","t","e"," ","l","i","m","i","t">>)

\* C16 as stated: a failed execution whose message contains "rate limit" is
\* classified RATE_LIMIT, never UNRECOVERABLE, and so reaches recovery.
C16_Original ==
    [][(Classified /\ SaysRateLimit(FailureText)) =>
          /\ _classify_error(FailureText) = "RATE_LIMIT"
          /\ fallback_calls' = fallback_calls + 1]_vars

\* C16 (amended): a failed execution whose message contains "rate limit" in
\* any letter case and no phrase of the unrecoverable list is classified
\* RATE_LIMIT and reaches recovery; one whose message also holds a phrase of
\* the unrecoverable list is classified UNRECOVERABLE and ends the run.
C16_RateLimitUnlessUnrecoverable ==
    [][(Classified /\ SaysRateLimit(FailureText)) =>
          IF MatchesAny(Lower(FailureText), unrecoverable_patterns)
          THEN /\ _classify_error(FailureText) = "UNRECOVERABLE"
               /\ fallback_calls' = fallback_calls
               /\ pc' = "returned"
          ELSE /\ _classify_error(FailureText) = "RATE_LIMIT"
               /\ fallback_calls' = fallback_calls + 1]_vars

C16_Witness ==
    /\ pc = "while"
    /\ attempted_approaches # <<>>
    /\ attempted_approaches[Len(attempted_approaches)].error = <<"R","a","t","e"," ","l","i","m","i","t"," ","e","x","c","e","e","d","e","d">>
    /\ fallback_calls = 2
    /\ replanning_attempts = 2

\* what the engine does with a failed execution that is eligible for
\* recovery, told without the class of its message
RecoveryStep ==
    /\ fallback_calls' = fallback_calls + 1
    /\ pc' \in {"while", "replanning", "raised"}
    /\ CASE FallbackAnswer.kind = "step" ->
                /\ pc' = "while"
                /\ current_step' = FallbackAnswer.step
                /\ replanning_attempts' = replanning_attempts + 1
                /\ total_replannings' = total_replannings + 1
                /\ llm_calls' = llm_calls
                /\ step_results' = step_results
         [] FallbackAnswer.kind = "raise" ->
                /\ pc' = "raised"
                /\ llm_calls' = llm_calls
                /\ step_results' = step_results
         [] OTHER ->
                /\ pc' = "replanning"
                /\ llm_calls' = llm_calls + 1
                /\ UNCHANGED << current_step, replanning_attempts,
                                total_replannings, step_results >>

\* what the engine does with the reply of the replanner, told without the
\* class of the message the replanner was asked about
ReplyStep ==
    /\ UNCHANGED << fallback_calls, llm_calls, executions, failures >>
    /\ \/ /\ pc' = "while"
          /\ llm_reply' = "step"
          /\ current_step' \in ReplannedSteps
          /\ replanning_attempts' = replanning_attempts + 1
          /\ total_replannings' = total_replannings + 1
          /\ step_results' = step_results
       \/ /\ pc' = "returned"
          /\ llm_reply' \in FailedReplies
          /\ replanning_attempts' = replanning_attempts
          /\ total_replannings' = total_replannings
          /\ step_results' =
                 _handle_partial_success(step_results, current_step,
                     step.step, remaining_steps, NoAlternativeText)

\* C17: a failed execution classified RATE_LIMIT and one classified
\* RECOVERABLE are handled by the same recovery step (fallback engine, then
\* LLM replanner, the same counter increments, the same trace); the engine
\* has no state in which it backs off or waits before a retry: the one place
\* it waits in besides the tool call is the call of the replanner, entered
\* and left alike for both classes.
C17_RateLimitAsRecoverable ==
    /\ [][(Classified /\ _classify_error(FailureText) = "RATE_LIMIT")
             => RecoveryStep]_vars
    /\ [][(Classified /\ _classify_error(FailureText) = "RECOVERABLE")
             => RecoveryStep]_vars
    /\ [][(ReplyHandled /\ _classify_error(FailureText) = "RATE_LIMIT")
             => ReplyStep]_vars
    /\ [][(ReplyHandled /\ _classify_error(FailureText) = "RECOVERABLE")
             => ReplyStep]_vars
    /\ [](pc \in {"for", "while", "replanning", "returned", "raised"})
    /\ [](pc = "replanning" =>
             _classify_error(attempted_approaches[Len(attempted_approaches)].error)
                 \in {"RATE_LIMIT", "RECOVERABLE"})

C17_Witness ==
    /\ pc = "while"
    /\ Len(attempted_approaches) = 2
    /\ _classify_error(attempted_approaches[1].error) = "RATE_LIMIT"
    /\ _classify_error(attempted_approaches[2].error) = "RECOVERABLE"
    /\ llm_calls = 2
    /\ replanning_attempts = 2

\* no tool execution has failed so far
NoFailure == \A k \in 1..Len(plan) : failures[k] = 0

\* the status the engine records for a step that went through
StatusOf(action_type) ==
    CASE action_type = "reasoning" -> "completed"
      [] action_type = "tool_call" -> "success"
      [] action_type = "synthesis" -> "pending"
      [] OTHER -> "None"

\* the trace is one record per plan step, in plan order, none failed
CleanTrace ==
    /\ Len(step_results) = Len(plan)
    /\ \A k \in 1..Len(plan) :
           /\ step_results[k].step = plan[k].step
           /\ step_results[k].description = plan[k].description
           /\ step_results[k].status = StatusOf(plan[k].action_type)
           /\ executions[k] = IF plan[k].action_type = "tool_call" THEN 1 ELSE 0

\* C18: for a plan of reasoning, tool_call and synthesis steps, a run in which every tool_call succeeds on its first execution ends returned
\* with one record per plan step in plan order, of status completed /
\* success / pending by action_type; each tool_call is executed once,
\* reasoning and synthesis steps execute no tool, and fallback engine, LLM
\* replanner and both counters are never touched.
C18_CleanRun ==
    (RecognisedPlan /\ NoFailure) =>
        /\ pc # "raised"
        /\ pc = "returned" => CleanTrace
        /\ total_replannings = 0
        /\ replanning_attempts = 0
        /\ fallback_calls = 0
        /\ llm_calls = 0
        /\ \A k \in 1..Len(plan) :
               /\ executions[k] <= 1
               /\ plan[k].action_type # "tool_call" => executions[k] = 0
        /\ \A k \in 1..Len(step_results) :
               step_results[k].status = StatusOf(plan[k].action_type)

C18_Witness ==
    /\ pc = "returned"
    /\ NoFailure
    /\ Len(plan) = 5
    /\ CleanTrace
    /\ step_results[1].status = "completed"
    /\ step_results[2].status = "success"
    /\ step_results[5].status = "pending"
    /\ executions = << 0, 1, 1, 1, 0 >>

\* the filings step with its form swapped: the first filing-not-found fallback
SwappedStep ==
    [FilingsStep EXCEPT !.tool_parameters.form_type = "10-Q"]

\* C19: when the first execution of get_recent_filings with form_type 10-K
\* and year 2023 fails with "No 10-K filings found for XYZ in 2023" and is
\* eligible for recovery, the filing-not-found fallback supplies the retry
\* (form_type 10-Q, year 2023, nothing else changed) and the LLM replanner is
\* not invoked.
C19_FormSwapFirst ==
    [][(/\ Eligible
        /\ current_step = FilingsStep
        /\ attempted_approaches = <<>>
        /\ FailureText = <<"N","o"," ","1","0","-","K"," ","f","i","l","i","n","g","s"," ","f","o","u","n","d"," ","f","o","r"," ","X","Y","Z"," ","i","n"," ","2","0","2","3">>) =>
          /\ llm_calls' = llm_calls
          /\ pc' = "while"
          /\ current_step' = SwappedStep]_vars

\* C20: when the form-swapped retry (form_type 10-Q, year 2023) of the
\* filings step also fails as filing-not-found and is eligible for recovery,
\* the next step comes from the fallback engine and has year 2022 with
\* form_type 10-K.
C20_YearFallbackRevertsForm ==
    [][(/\ Eligible
        /\ current_step = SwappedStep
        /\ Len(attempted_approaches) = 1
        /\ attempted_approaches[1].parameters = FilingsStep.tool_parameters
        /\ FailureText = <<"1","0","-","K"," ","f","i","l","i","n","g"," ","n","o","t"," ","f","o","u","n","d"," ","f","o","r"," ","X","Y","Z">>) =>
          /\ llm_calls' = llm_calls
          /\ pc' = "while"
          /\ current_step'.tool = "get_recent_filings"
          /\ current_step'.tool_parameters.year = 2022
          /\ current_step'.tool_parameters.form_type = "10-K"]_vars

\* the (tool, parameters) pair of a step is recorded in the attempt history
Recorded(s, attempts) ==
    \E k \in 1..Len(attempts) :
        /\ attempts[k].tool = s.tool
        /\ attempts[k].parameters = s.tool_parameters

\* C21: a step answered by the fallback engine (filing-not-found,
\* company-not-found or data-not-found strategy) never has a (tool,
\* parameters) pair that is already recorded in the attempt history it was
\* given, so no step in the history is ever offered again.
C21_NoRepeatedPair ==
    /\ []((pc = "while" /\ Offered.kind = "step") =>
             ~Recorded(Offered.step, attempted_approaches))
    /\ [][current_step' # current_step =>
             /\ current_step' = Offered.step
             /\ ~Recorded(current_step', attempted_approaches)
             /\ Recorded(current_step', attempted_approaches')]_vars

C21_Witness ==
    /\ pc = "returned"
    /\ fallback_calls = 4
    /\ Len(attempted_approaches) = 4
    /\ current_step.tool_parameters.year = earliest_year
    /\ attempted_approaches[1].parameters.form_type = "10-K"
    /\ attempted_approaches[2].parameters.form_type = "10-Q"

\* the probed message is one the dispatch sends to the filing strategy
FilingRun ==
    \E m \in DispatchMessages :
        m.text = LastError /\ m.not_found /\ m.filing

\* the form type or the year of the parameters is recorded in the history
Tried(key, value) ==
    \E k \in 1..Len(attempted_approaches) :
        attempted_approaches[k].parameters[key] = value

\* C22: when the filing-not-found fallback is invoked again and again, each
\* answer being executed and failing the same way, every answer either swaps
\* the form type at the same year or takes the year down by exactly one, never
\* below 2010; the fallback answers "no fallback" once the form swap and the
\* next year down are used up or out of range, after at most one swap and one
\* step per year down to 2010.
C22_FilingFallbackFinite ==
    /\ [][(FilingRun /\ current_step' # current_step) =>
             LET old == current_step.tool_parameters
                 new == current_step'.tool_parameters
             IN  \/ /\ new.year = old.year
                    /\ new.form_type # old.form_type
                    /\ new.form_type \in {"10-K", "10-Q"}
                 \/ /\ new.form_type = old.form_type
                    /\ new.year = old.year - 1
                    /\ new.year >= 2010]_vars
    /\ []((FilingRun /\ pc = "returned") =>
             LET p == ParamsOrEmpty(current_step) IN
             /\ \/ p.form_type \notin {"10-K", "10-Q"}
                \/ Tried("form_type", IF p.form_type = "10-K" THEN "10-Q" ELSE "10-K")
             /\ \/ p.year = NoYear
                \/ p.year - 1 < 2010
                \/ Tried("year", p.year - 1))
    /\ [](FilingRun => fallback_calls <= (LatestYear - 2010) + 2)

C22_Witness ==
    /\ FilingRun
    /\ pc = "returned"
    /\ fallback_calls = (LatestYear - 2010) + 2
    /\ current_step.tool_parameters.year = 2010
    /\ current_step.tool_parameters.form_type = "10-K"
    /\ Len(attempted_approaches) = LatestYear - 2010 + 2

\* every dict that was alive before the step has the entries it had
ObjectsKept ==
    /\ SubSeq(heap'.steps, 1, Len(heap.steps)) = heap.steps
    /\ SubSeq(heap'.maps, 1, Len(heap.maps)) = heap.maps

\* the dict of the step and the dict of its parameter map did not exist
\* before the step
NewObject(a) ==
    /\ a > Len(heap.steps)
    /\ heap'.steps[a].tool_parameters > Len(heap.maps)

\* C23: no step of a run changes the plan: every step of the plan, with its
\* parameter map, stays what it was when the run began, also when a fallback
\* or replanned step replaces current_step and is executed in its place:
\* the plan read from its dicts is the plan the run was given, no dict that
\* exists is written to, and current_step becomes either the plan's own step
\* or, by an adoption, a dict made in that step with a parameter map made in
\* that step.
C23_PlanUnchanged ==
    /\ [](plan = Loaded(heap, plan_refs) /\ current_step = Load(heap, current_ref))
    /\ [][plan' = plan /\ plan_refs' = plan_refs /\ ObjectsKept]_vars
    /\ [][current_ref' # current_ref =>
             \/ /\ current_ref' = plan_refs[step_index]
                /\ current_step' = plan[step_index]
             \/ /\ adoptions'[step_index] = adoptions[step_index] + 1
                /\ NewObject(current_ref')]_vars

C23_Witness ==
    /\ pc = "returned"
    /\ Len(heap.steps) = Len(plan) + 3
    /\ current_ref = Len(heap.steps)
    /\ plan = Loaded(heap, plan_refs)
    /\ heap.steps[current_ref].tool_parameters # heap.steps[plan_refs[4]].tool_parameters
    /\ Len(plan) = 5
    /\ plan[4] = FilingsStep
    /\ plan[3] = CompanyStep
    /\ adoptions[4] = 2
    /\ adoptions[3] = 1
    /\ step_results[4].status = "success"
    /\ step_results[4].parameters.year = 2022
    /\ step_results[3].tool = "search_companies"

\* the for loop is at a step whose action_type it does not know
AtUnknownStep ==
    /\ pc = "for"
    /\ step_index <= Len(plan)
    /\ step.action_type \notin {"reasoning", "tool_call", "synthesis"}

\* C24: a step of unknown action_type ends the run in that step: the trace
\* keeps the earlier records and gets a failed record with the malformed-plan
\* error right after them, no tool, fallback or LLM is called, both counters
\* stay, and neither that step nor a later one is ever executed.
C24_UnknownActionAborts ==
    /\ [][AtUnknownStep =>
             /\ pc' = "returned"
             /\ step_index' = step_index
             /\ UNCHANGED << total_replannings, replanning_attempts,
                             executions, failures, fallback_calls, llm_calls,
                             llm_requests, adoptions >>
             /\ Len(step_results') > Len(step_results)
             /\ SubSeq(step_results', 1, Len(step_results)) = step_results
             /\ LET r == step_results'[Len(step_results) + 1] IN
                    /\ r.status = "failed"
                    /\ r.step = step.step
                    /\ r.error = <<"S","t","e","p"," ">> \o IntText(step.step)
                           \o <<" ","f","a","i","l","e","d",":"," ","U","n","k","n","o","w","n"," ","a","c","t","i","o","n","_","t","y","p","e"," ","'">>
                           \o ActionTypeText(step.action_type) \o <<"'">>]_vars
    /\ [][pc = "returned" =>
             UNCHANGED << plan, step_index, step_results, total_replannings,
                          locals, pc, history >>]_vars
    /\ [](\A k \in 1..Len(plan) :
              plan[k].action_type \notin {"reasoning", "tool_call", "synthesis"} =>
                  /\ step_index <= k
                  /\ \A j \in k..Len(plan) : executions[j] = 0)

C24_Witness ==
    /\ pc = "returned"
    /\ plan = << ReasoningStep, UnknownStep, SynthesisStep >>
    /\ step_index = 2
    /\ Len(step_results) = 3
    /\ step_results[1].status = "completed"
    /\ step_results[2].status = "failed"
    /\ step_results[2].error = <<"S","t","e","p"," ","2"," ","f","a","i","l","e","d",":"," ","U","n","k","n","o","w","n"," ","a","c","t","i","o","n","_","t","y","p","e"," ","'","a","n","a","l","y","s","i","s","'">>
    /\ step_results[3].status = "skipped"
    /\ total_replannings = 0
    /\ llm_calls = 0

\* what a call keeps true of its own locals when it runs alone: the global
\* counter is the number of replacement steps it adopted, and inside the retry
\* loop the per-step counter and the attempt history are those of its step
OwnRun(f) ==
    /\ f.total_replannings = Total(f.adoptions)
    /\ f.pc \in {"while", "replanning"} =>
           /\ f.replanning_attempts = f.adoptions[f.step_index]
           /\ Len(f.attempted_approaches) = f.failures[f.step_index]
    /\ Len(f.step_results) <= Len(f.plan) + 1
    /\ \A k \in 1..Len(f.step_results) :
           \/ f.step_results[k].status = "skipped"
           \/ \E j \in 1..Len(f.plan) : f.step_results[k].step = f.plan[j].step

\* the dicts a call holds: the steps of its plan and its current step, and
\* the parameter maps of those
HeldSteps(f) ==
    { f.plan_refs[k] : k \in 1..Len(f.plan_refs) } \cup ({f.current_ref} \ {None})

HeldMaps(f) == { heap.steps[a].tool_parameters : a \in HeldSteps(f) } \ {None}

\* what the call read from its dicts is what they hold now
Reads(f) ==
    /\ f.plan = Loaded(heap, f.plan_refs)
    /\ f.current_step = Load(heap, f.current_ref)

\* the calls f and g hold no dict in common
Apart(f, g) ==
    /\ HeldSteps(f) \cap HeldSteps(g) = {}
    /\ HeldMaps(f) \cap HeldMaps(g) = {}

\* C25: with several calls of the engine interleaved on one agent, every call
\* has its own total_replannings, per-step counter, attempt history and
\* trace: a step of the executing call changes nothing of a suspended call, a
\* call resumes with exactly what it had when it was suspended, and each
\* call's counters and history always are those of its own failures and
\* adoptions; in the memory the calls share, no call holds a dict of
\* another, and the dicts of a suspended call keep their entries whatever
\* the executing call adopts.
C25_RunsIndependent ==
    /\ [](OwnRun(Frame) /\ \A t \in DOMAIN suspended : OwnRun(suspended[t]))
    /\ [](/\ Reads(Frame)
          /\ \A t \in DOMAIN suspended :
                 /\ Reads(suspended[t])
                 /\ Apart(Frame, suspended[t])
                 /\ \A u \in DOMAIN suspended \ {t} :
                        Apart(suspended[t], suspended[u]))
    /\ [][ObjectsKept]_vars
    /\ [][running' = running => suspended' = suspended]_vars
    /\ [][running' # running =>
             /\ Frame' = suspended[running']
             /\ suspended'[running] = Frame
             /\ \A u \in DOMAIN suspended \ {running'} :
                    suspended'[u] = suspended[u]]_vars

C25_Witness ==
    /\ running = 2
    /\ current_ref \notin HeldSteps(suspended[1])
    /\ suspended[1].current_ref \notin { plan_refs[k] : k \in 1..Len(plan_refs) }
    /\ Len(heap.steps) = Len(plan) + Len(suspended[1].plan) + 3
    /\ pc = "while"
    /\ total_replannings = 1
    /\ Len(attempted_approaches) = 1
    /\ suspended[1].pc = "while"
    /\ suspended[1].total_replannings = 2
    /\ Len(suspended[1].attempted_approaches) = 2
    /\ suspended[1].plan # plan

\* C26: the synthesis prompt of a returned run closes with the
\* partial-success instructions exactly when the trace holds a failed record,
\* which is exactly when the for loop was left before the end of the plan;
\* the trace of a run that went through the whole plan gets the
\* clean-completion instructions.
C26_SynthesisPath ==
    instructions # "None" =>
        /\ pc = "returned"
        /\ instructions = "partial_success" <=> HasFailed(step_results)
        /\ HasFailed(step_results) <=> step_index <= Len(plan)
        /\ step_index > Len(plan) => instructions = "clean_completion"

C26_Witness ==
    /\ instructions = "partial_success"
    /\ Len(plan) = 5
    /\ step_index = 3
    /\ Len(step_results) = 4
    /\ step_results[2].status = "success"
    /\ step_results[3].status = "failed"
    /\ step_results[4].status = "skipped"

\* what the message of the last failure was put together from
SaidBy(text) == CHOOSE m \in DispatchMessages : m.text = text

\* C27: the strategy is chosen from the message alone, in this order: the
\* filing strategy when it has a not-found phrase and a filing term, else the
\* company strategy when it has a not-found phrase and a company term, else
\* the data strategy when it has a not-found phrase, and no fallback when it
\* has no not-found phrase; a message with a filing and a company term gets
\* the filing strategy.
C27_DispatchOrder ==
    pc = "while" =>
        LET m == SaidBy(LastError) IN
        Offered =
            IF ~m.not_found THEN NoStep
            ELSE IF m.filing
                 THEN _fallback_filing_not_found(current_step, attempted_approaches)
            ELSE IF m.company
                 THEN _fallback_company_not_found(current_step, attempted_approaches)
            ELSE _fallback_data_not_found(current_step, attempted_approaches)

C27_Witness ==
    /\ fallback_calls = 1
    /\ pc = "while"
    /\ LastError = <<"C","o","m","p","a","n","y"," ","f","i","l","i","n","g"," ","n","o","t"," ","f","o","u","n","d">>
    /\ SaidBy(LastError).company
    /\ current_step = [RichStep EXCEPT !.tool_parameters.form_type = "10-K"]
    /\ _fallback_company_not_found(RichStep, SubSeq(attempted_approaches, 1, 1)).step.tool
           = "search_companies"

\* the parameters in which two parameter maps differ
Differing(p, q) ==
    { key \in {"identifier", "cik_or_ticker", "form_type", "year", "query", "limit"} :
          p[key] # q[key] }

\* C28: a step answered by the filing-not-found fallback has the tool, the
\* step number, the action type and the description of the failed step and
\* its parameters but for exactly one, which is form_type or year; so has
\* every step the engine goes on with after a filing-not-found failure.
C28_OneParameterChanged ==
    /\ [](LET answer == _fallback_filing_not_found(current_step, attempted_approaches) IN
          answer.kind = "step" =>
              /\ answer.step.step = current_step.step
              /\ answer.step.tool = current_step.tool
              /\ answer.step.action_type = current_step.action_type
              /\ answer.step.description = current_step.description
              /\ answer.step.tool_parameters.present
              /\ \/ Differing(answer.step.tool_parameters, ParamsOrEmpty(current_step)) = {"form_type"}
                 \/ Differing(answer.step.tool_parameters, ParamsOrEmpty(current_step)) = {"year"})
    /\ [][(current_step' # current_step /\ SaidBy(LastError).filing) =>
             /\ current_step'.step = current_step.step
             /\ current_step'.tool = current_step.tool
             /\ Cardinality(Differing(current_step'.tool_parameters,
                                      current_step.tool_parameters)) = 1]_vars

C28_Witness ==
    /\ fallback_calls = 2
    /\ pc = "while"
    /\ SaidBy(LastError).filing
    /\ current_step = [RichStep EXCEPT !.tool_parameters.form_type = "10-K",
                                       !.tool_parameters.year = LatestYear - 1]
    /\ attempted_approaches[Len(attempted_approaches) - 1].parameters.year = LatestYear
    /\ attempted_approaches[Len(attempted_approaches) - 1].parameters.form_type = "10-K"

\* the attempts of the history made with the search tool
SearchAttempts(attempts) ==
    { k \in 1..Len(attempts) : attempts[k].tool = "search_companies" }

\* C29: a step with an identifier that failed as company-not-found, with no
\* search_companies attempt in its history, is answered by a search_companies
\* step of the same step number whose only parameters are query, the step's
\* identifier, and limit 5; the fallback engine never offers the search when
\* the history holds a search attempt, so a step gets it at most once.
C29_SearchSubstitution ==
    /\ [](LET m == SaidBy(LastError) IN
          ( /\ pc = "while"
            /\ m.not_found /\ ~m.filing /\ m.company
            /\ ParamsOrEmpty(current_step).identifier # NoText
            /\ SearchAttempts(attempted_approaches) = {} ) =>
              /\ Offered.kind = "step"
              /\ Offered.step.step = current_step.step
              /\ Offered.step.action_type = "tool_call"
              /\ Offered.step.tool = "search_companies"
              /\ Offered.step.tool_parameters =
                     [EmptyParams EXCEPT
                          !.query = current_step.tool_parameters.identifier,
                          !.limit = 5])
    /\ []((pc = "while" /\ Offered.kind = "step" /\ Offered.step.tool = "search_companies")
              => SearchAttempts(attempted_approaches) = {})
    /\ [](Cardinality(SearchAttempts(attempted_approaches)) <= 1)

C29_Witness ==
    /\ fallback_calls = 1
    /\ pc = "while"
    /\ LastError = <<"C","o","m","p","a","n","y"," ","n","o","t"," ","f","o","u","n","d">>
    /\ Len(attempted_approaches) = 2
    /\ attempted_approaches[1].tool = "get_company_info"
    /\ attempted_approaches[1].parameters.identifier = <<"A","c","m","e"," ","I","n","c">>
    /\ current_step.step = 3
    /\ current_step.tool = "search_companies"
    /\ current_step.tool_parameters.query = <<"A","c","m","e"," ","I","n","c">>
    /\ current_step.tool_parameters.limit = 5
    /\ Offered.step.tool # "search_companies"

\* the search_companies step that replaces the company step
SearchStep ==
    [step |-> CompanyStep.step, action_type |-> "tool_call",
     description |-> <<"S","e","a","r","c","h"," ","f","o","r"," ","c","o","m","p","a","n","y",":"," ","A","c","m","e"," ","I","n","c">>, tool |-> "search_companies",
     tool_parameters |-> [EmptyParams EXCEPT !.query = <<"A","c","m","e"," ","I","n","c">>, !.limit = 5]]

\* C30: when the company step (identifier "Acme Inc") has failed as
\* company-not-found, the search_companies step adopted in its place fails as
\* company-not-found too and the failure is eligible for recovery, the next
\* step comes from the fallback engine and is the original tool with the
\* identifier "Acme", the LLM replanner not being invoked.
C30_SuffixStripAfterSearch ==
    [][(/\ Eligible
        /\ current_step = SearchStep
        /\ Len(attempted_approaches) = 1
        /\ attempted_approaches[1].tool = CompanyStep.tool
        /\ attempted_approaches[1].parameters = CompanyStep.tool_parameters
        /\ attempted_approaches[1].error = <<"C","o","m","p","a","n","y"," ","n","o","t"," ","f","o","u","n","d">>
        /\ FailureText = <<"C","o","m","p","a","n","y"," ","n","o","t"," ","f","o","u","n","d">>) =>
          /\ llm_calls' = llm_calls
          /\ pc' = "while"
          /\ current_step' =
                 [CompanyStep EXCEPT !.tool_parameters.identifier = <<"A","c","m","e">>]]_vars

\* the trace without the skip note
StepRecords == SelectSeq(step_results, LAMBDA r : r.status # "skipped")

\* C31: at every point the trace without the skip note holds one record for
\* each of the first k plan steps, in plan order: k is the number of steps
\* gone through while the run is on, and once the run is over every tool_call
\* step that was executed has its one record, of status success or failed.
C31_OneRecordPerStep ==
    /\ Len(StepRecords) <= Len(plan)
    /\ \A k \in 1..Len(StepRecords) : StepRecords[k].step = plan[k].step
    /\ Running => Len(StepRecords) = step_index - 1
    /\ ~Running =>
           \A k \in 1..Len(plan) :
               executions[k] > 0 =>
                   /\ k <= Len(StepRecords)
                   /\ StepRecords[k].status \in {"success", "failed"}

\* the step names a tool of the registry
Registered(s) == s.tool # NoTool /\ s.tool \in tool_registry

\* what C32 says of every outcome but the number of invocations: the
\* execution fails with "Invalid tool" on a step without a registered tool,
\* succeeds exactly when the tool is registered and answers a result with
\* success set, and fails with the tool's own message when the tool reports
\* or raises one
ExecutorAnswers(s) ==
    \A outcome \in ToolOutcomes :
        LET result == _execute_single_tool_step(s, outcome) IN
        /\ result.invoked <= 1
        /\ ~Registered(s) =>
               /\ ~result.ok
               /\ result.invoked = 0
               /\ result.error = <<"I","n","v","a","l","i","d"," ","t","o","o","l"," ","'">> \o ToolText(s.tool) \o <<"'">>
        /\ result.ok <=> (Registered(s) /\ outcome.kind = "ok")
        /\ (Registered(s) /\ outcome.kind \in {"reported", "exception"}) =>
               result.error = outcome.text
        /\ (Registered(s) /\ outcome.kind # "ok") => result.error # NoText

\* a successful execution appends the success record of the executed step
SuccessRecorded ==
    [][(executions' # executions /\ failures' = failures) =>
          LET r == step_results'[Len(step_results')] IN
          /\ Len(step_results') = Len(step_results) + 1
          /\ r.status = "success"
          /\ r.tool = current_step.tool
          /\ r.parameters = ParamsOrEmpty(current_step)]_vars

\* C32 as stated: the executor of the step the retry loop is at makes no
\* invocation when the tool is missing or unregistered and exactly one
\* invocation in every other case.
C32_Original ==
    pc = "while" =>
        \A outcome \in ToolOutcomes :
            _execute_single_tool_step(current_step, outcome).invoked =
                IF Registered(current_step) THEN 1 ELSE 0

\* C32 (amended): the executor makes at most one invocation and never a
\* second: none when the tool is missing or unregistered ("Invalid tool") and
\* none when the registered method is missing on the tool instance, exactly
\* one otherwise; it fails when the invocation raises or the result's success
\* is absent or false, with the tool's error string, and a success record of
\* the executed step is appended in every other case.
C32_OneInvocation ==
    /\ [](pc = "while" =>
            /\ ExecutorAnswers(current_step)
            /\ \A outcome \in ToolOutcomes :
                   _execute_single_tool_step(current_step, outcome).invoked =
                       IF Registered(current_step) /\ outcome.kind # "method_missing"
                       THEN 1 ELSE 0)
    /\ SuccessRecorded

C32_Witness ==
    /\ pc = "returned"
    /\ Len(plan) = 5
    /\ step_results[2].status = "success"
    /\ step_results[3].status = "failed"
    /\ step_results[3].tool = "search_companies"
    /\ step_results[3].error = <<"M","e","t","h","o","d"," ","'","s","e","a","r","c","h","_","c","o","m","p","a","n","i","e","s","'"," ","n","o","t"," ","f","o","u","n","d"," ","o","n"," ","t","o","o","l">>
    /\ executions[3] = max_replanning_attempts + 1

\* the message of the executor for a registered method missing on the tool
MethodNotFoundText(tool) == <<"M","e","t","h","o","d"," ","'">> \o ToolText(tool) \o <<"'"," ","n","o","t"," ","f","o","u","n","d"," ","o","n"," ","t","o","o","l">>

\* C33: the method-not-found failure of the executor is classified
\* UNRECOVERABLE, and an execution that fails with it ends the run in that
\* step with no fallback and no LLM replanning.
C33_MethodNotFoundAborts ==
    /\ [](\A tool \in tool_registry :
              _classify_error(MethodNotFoundText(tool)) = "UNRECOVERABLE")
    /\ [][(ExecutionFails /\ FailureText = MethodNotFoundText(current_step.tool)) =>
             /\ pc' = "returned"
             /\ fallback_calls' = fallback_calls
             /\ llm_calls' = llm_calls]_vars

\* the positions of the tool_call steps whose retry loop has been entered
Begun ==
    { k \in 1..Len(plan) :
          /\ plan[k].action_type = "tool_call"
          /\ \/ k < step_index
             \/ k = step_index /\ pc # "for" }

\* a replacement step is adopted in the step
Adopts == adoptions' # adoptions

\* C34: adopting a replacement step, from the fallback engine or from the LLM
\* replanner, adds one to the per-step counter and one to total_replannings;
\* nothing else changes total_replannings, and the per-step counter otherwise
\* only starts at 0 with each tool_call step. So total_replannings is the sum
\* of the per-step counters of the steps so far, and the executions made are
\* the tool_call steps begun plus total_replannings, the execution the retry
\* loop is about to make being the one still missing while the loop is on.
C34_CountersInStep ==
    /\ [][Adopts =>
             /\ adoptions'[step_index] = adoptions[step_index] + 1
             /\ replanning_attempts' = replanning_attempts + 1
             /\ total_replannings' = total_replannings + 1
             /\ \/ /\ ExecutionFails
                   /\ fallback_calls' = fallback_calls + 1
                   /\ llm_calls' = llm_calls
                \/ /\ ReplyHandled
                   /\ llm_reply' = "step"
                   /\ llm_requests' = llm_requests + 1]_vars
    /\ [][total_replannings' # total_replannings => Adopts]_vars
    /\ [][replanning_attempts' # replanning_attempts =>
             \/ Adopts
             \/ pc = "for" /\ pc' = "while" /\ replanning_attempts' = 0]_vars
    /\ [](total_replannings = Total(adoptions))
    /\ [](pc = "while" => replanning_attempts = adoptions[step_index])
    /\ [](Total(executions) =
              Cardinality(Begun) + total_replannings - (IF pc = "while" THEN 1 ELSE 0))

C34_Witness ==
    /\ pc = "returned"
    /\ total_replannings = 4
    /\ adoptions = << 0, 2, 1, 1, 0 >>
    /\ Cardinality(Begun) = 3
    /\ Total(executions) = 7
    /\ llm_calls >= 1

\* C35: the record that ends a tool_call step, success or failed, has the
\* step number of the plan step, and the tool and parameters of the step
\* executed last in the retry loop, also when that step is a replacement
\* declaring another step number.
\* The record enters the trace either in the step that executes current_step
\* (success, or a failure that ends the run at once) or, when the replanner
\* was asked, in the step that handles its reply; then the step executed last
\* is the one of the last attempt recorded.
C35_RecordOfLastVariant ==
    [][(pc \in {"while", "replanning"} /\ step_results' # step_results) =>
          LET r == step_results'[Len(step_results) + 1]
              last_attempt == attempted_approaches'[Len(attempted_approaches')]
          IN
          /\ IF pc = "while"
             THEN executions'[step_index] = executions[step_index] + 1
             ELSE /\ executions' = executions
                  /\ executions[step_index] >= 1
                  /\ attempted_approaches' = attempted_approaches
          /\ r.status \in {"success", "failed"}
          /\ pc = "replanning" => r.status = "failed"
          /\ r.step = plan[step_index].step
          /\ r.tool = current_step.tool
          /\ r.parameters = IF r.status = "success"
                            THEN ParamsOrEmpty(current_step)
                            ELSE current_step.tool_parameters
          /\ r.status = "failed" =>
                 /\ last_attempt.tool = r.tool
                 /\ last_attempt.parameters = r.parameters]_vars

C35_Witness ==
    /\ pc = "returned"
    /\ Len(plan) = 5
    /\ plan[3] = CompanyStep
    /\ plan[4] = FilingsStep
    /\ adoptions[3] = 1
    /\ step_results[3].status = "success"
    /\ step_results[3].step = CompanyStep.step
    /\ step_results[3].tool = "get_recent_filings"
    /\ step_results[3].parameters.year = 2011
    /\ adoptions[4] >= 1
    /\ llm_reply = "empty"
    /\ current_step.step = 7
    /\ step_results[4].status = "failed"
    /\ step_results[4].error = NoAlternativeText
    /\ step_results[4].step = FilingsStep.step
    /\ step_results[4].tool = current_step.tool
    /\ step_results[4].parameters = current_step.tool_parameters
    /\ step_results[4].parameters.year = 2011

\* the failed record that enters the trace in the step
FailedEntry == step_results'[Len(step_results) + 1]

\* C36: the failed record of an abandoned tool_call step has the tool and
\* parameters of the step executed last; its error is the message of the
\* last execution when the per-step budget is used up, and also when the
\* message is UNRECOVERABLE with budget left; when only the total budget is
\* used up its error is the budget message, whatever the tool's message was,
\* UNRECOVERABLE included.
C36_ErrorOfFailedRecord ==
    [][(RunAborts /\ ExecutionFails) =>
          /\ FailedEntry.status = "failed"
          /\ FailedEntry.tool = current_step.tool
          /\ FailedEntry.parameters = current_step.tool_parameters
          /\ replanning_attempts >= max_replanning_attempts =>
                 FailedEntry.error = FailureText
          /\ ( /\ replanning_attempts < max_replanning_attempts
               /\ total_replannings >= max_total_replannings ) =>
                 /\ FailedEntry.error = <<"E","x","c","e","e","d","e","d"," ","m","a","x","i","m","u","m"," ","r","e","p","l","a","n","n","i","n","g"," ","a","t","t","e","m","p","t","s"," ","f","o","r"," ","t","h","i","s"," ","q","u","e","r","y">>
                 /\ FailedEntry.error # FailureText
          /\ ( /\ replanning_attempts < max_replanning_attempts
               /\ total_replannings < max_total_replannings
               /\ _classify_error(FailureText) = "UNRECOVERABLE" ) =>
                 FailedEntry.error = FailureText]_vars

C36_Witness ==
    /\ pc = "returned"
    /\ total_replannings = max_total_replannings
    /\ replanning_attempts < max_replanning_attempts
    /\ attempted_approaches[Len(attempted_approaches)].error = <<"I","n","v","a","l","i","d"," ","C","I","K"," ","f","o","r","m","a","t">>
    /\ HasFailed(step_results)
    /\ step_results[Len(step_results) - 1].error
           = <<"E","x","c","e","e","d","e","d"," ","m","a","x","i","m","u","m"," ","r","e","p","l","a","n","n","i","n","g"," ","a","t","t","e","m","p","t","s"," ","f","o","r"," ","t","h","i","s"," ","q","u","e","r","y">>
    /\ step_results[Len(step_results) - 1].tool = current_step.tool

\* what the tools did at the first execution of each step of this run, as far
\* as the run shows it: a step without a failed execution was answered with a
\* result, a step with one was answered with bad
FirstOutcomes(bad) ==
    [k \in 1..Len(plan) |->
        IF failures[k] = 0 THEN [kind |-> "ok", text |-> NoText] ELSE bad]

FailingOutcomes == { o \in ToolOutcomes : o.kind # "ok" }

\* C37: on a plan whose tool calls all succeed at their first execution
\* _execute_plan and _execute_plan_with_replanning return the same trace,
\* record for record; on a plan with a failing tool call or an unknown
\* action_type _execute_plan raises and returns no record.
C37_SameTraceOnCleanPlans ==
    ~Running =>
        \A bad \in FailingOutcomes :
            LET fail_fast == _execute_plan(plan, FirstOutcomes(bad)) IN
                IF RecognisedPlan /\ NoFailure
                THEN /\ pc = "returned"
                     /\ fail_fast.kind = "returned"
                     /\ fail_fast.trace = step_results
                ELSE /\ fail_fast.kind = "raised"
                     /\ fail_fast.trace = << >>
                     /\ pc = "returned" => step_results # fail_fast.trace

C37_Witness ==
    /\ pc = "returned"
    /\ NoFailure
    /\ Len(plan) = 5
    /\ executions = << 0, 1, 1, 1, 0 >>
    /\ \A bad \in FailingOutcomes :
           /\ _execute_plan(plan, FirstOutcomes(bad)).kind = "returned"
           /\ Len(_execute_plan(plan, FirstOutcomes(bad)).trace) = 5
           /\ _execute_plan(plan, FirstOutcomes(bad)).trace = step_results

ToolsExecuted == \E k \in 1..Len(executions) : executions[k] > 0

\* C38: run returns on every path (query rejected by validation, no plan,
\* plan executed fully or partly, exception), what it returns is an object
\* with a content field; and when validation rejected the query or no plan
\* was made, no tool has been executed.
C38_ResponseHasContent ==
    /\ pc # "propagated"
    /\ pc = "done" => response.kind = "dict"
    /\ (validation_result.status \notin {"None", "valid"} \/ plan = << >>)
           => ~ToolsExecuted

====
